---------------------------- MODULE Spec2Model ----------------------------
(***************************************************************************)
(* A model of the XML listener middleware (src/src/server.py):             *)
(*   TCPServer   - accept loop, admission (rate limit, slot semaphore),    *)
(*                 one handler thread per connection that frames the byte  *)
(*                 stream on </EVENT> and appends records to current_file; *)
(*   FileManager - rotation loop and rotate_file (read, wrap, validate,    *)
(*                 upload, truncate) under the shared file lock;           *)
(*   S3Client    - upload_file with retries and error classification.      *)
(* Bytes are one-character strings, byte strings are sequences of them.    *)
(* Time is in seconds.                                                     *)
(***************************************************************************)
EXTENDS Integers, Sequences, FiniteSets, TLC

(***************************************************************************)
(* Bounds of the model.                                                    *)
(***************************************************************************)
\* the clock runs from 0 to MaxTime
MaxTime == 60
\* the clock advances in steps of TickStep seconds
TickStep == 60

(***************************************************************************)
(* Byte strings.                                                           *)
(***************************************************************************)
Marker == <<"<", "/", "E", "V", "E", "N", "T", ">">>
XmlDeclPrefix == <<"<", "?", "x", "m", "l">>
XmlDeclEnd == <<"?", ">">>
Whitespace == {" ", "\n", "\t", "\r"}

Min(a, b) == IF a <= b THEN a ELSE b

\* Python s[lo:hi] (0-based, hi exclusive), for 0 <= lo
Slice(s, lo, hi) == SubSeq(s, lo + 1, Min(hi, Len(s)))

\* Python s[lo:]
SliceFrom(s, lo) == SubSeq(s, lo + 1, Len(s))

OccursAt(s, p, i) == i + Len(p) <= Len(s) /\ SubSeq(s, i + 1, i + Len(p)) = p

\* p in s
Contains(s, p) == \E i \in 0..(Len(s) - Len(p)) : OccursAt(s, p, i)

\* bytes.find: the lowest 0-based index at which p occurs in s, or -1
Find(s, p) ==
    IF Contains(s, p)
    THEN CHOOSE i \in 0..(Len(s) - Len(p)) :
            OccursAt(s, p, i) /\ \A j \in 0..(i - 1) : ~OccursAt(s, p, j)
    ELSE -1

\* bytes.startswith
StartsWith(s, p) == OccursAt(s, p, 0)

\* bytes.lstrip(): drop the leading whitespace
LStrip(s) ==
    IF \A i \in 1..Len(s) : s[i] \in Whitespace
    THEN <<>>
    ELSE SliceFrom(s, (CHOOSE i \in 1..Len(s) :
                          s[i] \notin Whitespace /\ \A j \in 1..(i - 1) : s[j] \in Whitespace) - 1)

(***************************************************************************)
(* The framer of handle_client (lines 144-153).                            *)
(***************************************************************************)
\* while b"</EVENT>" in message_buffer
HasEvent(buffer) == Contains(buffer, Marker)

\* event_end = message_buffer.find(b"</EVENT>") + 8
EventEnd(buffer) == Find(buffer, Marker) + 8

\* a faulty variant of TakeEvent: the whole buffer is taken, marker seen or not
TakeEventWholeBuffer(buffer) == buffer

\* event_data = message_buffer[:event_end]
TakeEvent(buffer) == Slice(buffer, 0, EventEnd(buffer))

\* a faulty variant of DropEvent: what follows the event in the buffer is thrown away
DropEventClearsBuffer(buffer) == <<>>

\* message_buffer = message_buffer[event_end:]
DropEvent(buffer) == SliceFrom(buffer, EventEnd(buffer))

\* Remove XML declaration if present
StripDeclaration(data) ==
    IF StartsWith(data, XmlDeclPrefix) /\ Find(data, XmlDeclEnd) # -1
    THEN LStrip(SliceFrom(data, Find(data, XmlDeclEnd) + 2))
    ELSE data


(***************************************************************************)
(* State.                                                                  *)
(***************************************************************************)
VARIABLES
    cfg,                  \* the configuration the components were built with
    now,                  \* time.time()
    address,              \* address[c]: source address of client c
    wire,                 \* wire[c]: bytes client c has still to deliver
    received,             \* history: received[c], the bytes recv has returned on connection c
    chunking,             \* chunking[c]: 0 = recv may return any prefix, n = segments of n bytes
    store,                \* the answers the object store may give to an upload attempt
    sock,                 \* sock[c]: admission state of client c's connection
    running,              \* TCPServer.running
    accept_pc,            \* position of the accept loop
    accepted,             \* the connection the accept loop is admitting
    connection_semaphore, \* free slots of TCPServer.connection_semaphore
    connection_count,     \* TCPServer.connection_count
    rate_limiter,         \* TCPServer.rate_limiter: address -> timestamps
    allow_log,            \* history of check_rate_limit calls: address, time, result
    recorded,             \* history of update_rate_limit calls: address -> timestamps
    hpc,                  \* hpc[c]: position of the handler thread of connection c
    message_buffer,       \* message_buffer[c] of handle_client
    total_received,       \* total_received[c] of handle_client
    event_data,           \* event_data[c] of handle_client
    exit_path,            \* exit_path[c]: how the handler of c left its receive loop
    current_file,         \* content of CURRENT_FILE
    event_count,          \* TCPServer.event_count
    file_lock,            \* holder of the shared file lock
    appended,             \* history: records whose append completed, in order
    lock_order,           \* history: the handlers in the order they took the file lock
    fm_running,           \* FileManager.running
    rpc,                  \* position of the rotation thread
    last_rotation_time,   \* rotation_loop local
    current_time,         \* rotation_loop local
    wake,                 \* end of the rotation loop's current sleep
    rot,                  \* rotate_file locals
    attempt,              \* upload_file loop variable
    slept,                \* history: delays upload_file slept, current call
    answered,             \* history: answers of the store to the attempts, current call
    upload_calls,         \* history: upload_file calls (key, body, result)
    bucket,               \* objects in the store: successful uploads
    lock_holder,          \* holders of event_count_lock, rate_limit_lock, connection_lock
    exit_status,          \* status the process exited with, -1 while it runs
    bucket_access         \* history: outcome of the startup check of the bucket

envVars == <<cfg, address, chunking, store>>
startVars == <<exit_status, bucket_access>>
leafVars == <<lock_holder>>
listenerVars == <<sock, running, accept_pc, accepted, connection_semaphore, connection_count>>
rateVars == <<rate_limiter, allow_log, recorded>>
handlerVars == <<hpc, wire, received, message_buffer, total_received, event_data,
                 exit_path>>
logVars == <<current_file, event_count, file_lock, appended, lock_order>>
rotatorVars == <<fm_running, rpc, last_rotation_time, current_time, wake, rot>>
uploadVars == <<attempt, slept, answered, upload_calls, bucket>>
vars == <<envVars, leafVars, startVars, now, listenerVars, rateVars, handlerVars, logVars, rotatorVars, uploadVars>>

Conns == DOMAIN address
Addresses == {address[c] : c \in Conns}

\* a faulty variant of Trusted: no source is trusted
TrustedNone == {}

\* address[0] not in ['127.0.0.1', 'localhost']
Trusted == {"127.0.0.1", "localhost"}

Free == [t |-> "free", c |-> 0]
HeldByHandler(c) == [t |-> "handler", c |-> c]
HeldByRotator == [t |-> "rotator", c |-> 0]
HeldByMain == [t |-> "main", c |-> 0]

\* the locks of TCPServer.__init__ other than the file lock
LeafLocks == {"event_count_lock", "rate_limit_lock", "connection_lock"}

(***************************************************************************)
(* The clock and the shutdown signal.                                      *)
(***************************************************************************)
Tick ==
    /\ now + TickStep <= MaxTime
    /\ now' = now + TickStep
    /\ UNCHANGED <<envVars, leafVars, startVars, listenerVars, rateVars, handlerVars, logVars, rotatorVars, uploadVars>>

\* signal_handler: tcp_server.stop(), file_manager.stop()
Shutdown ==
    /\ running \/ fm_running
    /\ running' = FALSE
    /\ fm_running' = FALSE
    /\ UNCHANGED <<envVars, leafVars, startVars, now, sock, accept_pc, accepted, connection_semaphore, connection_count,
                   rateVars, handlerVars, logVars, rpc, last_rotation_time, current_time, wake,
                   rot, uploadVars>>

\* signal_handler: file_manager.stop() returns, its join of the rotation thread over
\* (the thread ended, or 5 seconds passed), and sys.exit(0) raises SystemExit in the main
\* thread, which the accept loop does not catch: the process ends, and with it the daemon
\* threads of the handlers and of the rotation
SignalExit ==
    /\ ~running /\ ~fm_running
    /\ exit_status = -1
    /\ exit_status' = 0
    /\ accept_pc' = "exited"
    /\ UNCHANGED <<envVars, leafVars, bucket_access, now, sock, running, accepted, connection_semaphore,
                   connection_count, rateVars, handlerVars, logVars, rotatorVars, uploadVars>>

\* a step of a thread of the process, which runs while the process lives
WhileAlive(A) == exit_status = -1 /\ A

\* a step of the main thread in the accept loop: the signal handler runs in the main
\* thread, which is in the accept loop only while the flag is set
MainThread(A) == WhileAlive(running /\ A)

(***************************************************************************)
(* start_server: the main thread up to the accept loop.                    *)
(***************************************************************************)
\* what S3Client.__init__ can meet: a credential is missing, boto3.client raises, or
\* head_bucket answers
StartupAnswers == {"ok", "no_credentials", "client_error", "404", "AccessDenied", "Exception"}

\* a faulty variant of AccessGranted: the answer of the check is ignored
AccessGrantedAlways(answer) == TRUE

\* check_bucket_access returned True and nothing raised before it
AccessGranted(answer) == answer = "ok"

\* sys.exit(1): the process ends, and its daemon threads with it
ExitOne ==
    /\ exit_status' = 1
    /\ accept_pc' = "exited"

\* if not config.get("BUCKET_NAME"): sys.exit(1)
StartCheckConfig ==
    /\ accept_pc = "start_server"
    /\ IF cfg.bucket_name = <<>>
       THEN ExitOne
       ELSE accept_pc' = "init_components" /\ UNCHANGED exit_status
    /\ UNCHANGED <<envVars, leafVars, bucket_access, now, sock, running, accepted, connection_semaphore,
                   connection_count, rateVars, handlerVars, logVars, rotatorVars, uploadVars>>

\* TCPServer(config), S3Client(config), FormatConverter(config), FileManager(config): the
\* constructor of S3Client checks the bucket and raises when the check fails; except
\* Exception: sys.exit(1)
StartInitComponents ==
    /\ accept_pc = "init_components"
    /\ \E answer \in StartupAnswers :
          /\ bucket_access' = IF answer = "ok" THEN "ok" ELSE "failed"
          /\ IF AccessGranted(answer)
             THEN accept_pc' = "file_manager_start" /\ UNCHANGED exit_status
             ELSE ExitOne
    /\ UNCHANGED <<envVars, leafVars, now, sock, running, accepted, connection_semaphore,
                   connection_count, rateVars, handlerVars, logVars, rotatorVars, uploadVars>>

\* file_manager.start: self.running = True, the rotation thread starts and reads the
\* clock; the signal handlers are set
StartFileManager ==
    /\ accept_pc = "file_manager_start"
    /\ fm_running' = TRUE
    /\ rpc' = "poll"
    /\ last_rotation_time' = now
    /\ accept_pc' = "tcp_server_start"
    /\ UNCHANGED <<envVars, leafVars, startVars, now, sock, running, accepted, connection_semaphore,
                   connection_count, rateVars, handlerVars, logVars, current_time, wake, rot,
                   uploadVars>>

\* tcp_server.start: bind, listen, self.running = True; or bind raises, finally self.stop(),
\* except Exception: sys.exit(1)
StartListen ==
    /\ accept_pc = "tcp_server_start"
    /\ \E bound \in BOOLEAN :
          IF bound
          THEN /\ running' = TRUE
               /\ accept_pc' = "accept"
               /\ UNCHANGED <<exit_status, rpc>>
          ELSE /\ ExitOne
               /\ rpc' = "stopped"
               /\ UNCHANGED running
    /\ UNCHANGED <<envVars, leafVars, bucket_access, now, sock, accepted, connection_semaphore,
                   connection_count, rateVars, handlerVars, logVars, fm_running,
                   last_rotation_time, current_time, wake, rot, uploadVars>>

\* the main thread from start_server to the accept loop
NextStart == StartCheckConfig \/ StartInitComponents \/ StartFileManager \/ StartListen

(***************************************************************************)
(* TCPServer.check_rate_limit and update_rate_limit.                       *)
(***************************************************************************)
\* a faulty variant of Prune: every entry is dropped
PruneDropsAll(window, t) == <<>>

\* the entries check_rate_limit keeps: current_time - ts < rate_limit_window
Prune(window, t) ==
    LET Fresh(ts) == t - ts < cfg.rate_limit_window
    IN  SelectSeq(window, Fresh)

\* a faulty variant of WithinLimit: one entry too many is let through
WithinLimitOffByOne(pruned) == ~(Len(pruned) > cfg.rate_limit_max_events)

\* the value check_rate_limit returns, given the pruned window
WithinLimit(pruned) == ~(Len(pruned) >= cfg.rate_limit_max_events)

\* if self.rate_limit_enabled and address[0] not in ['127.0.0.1', 'localhost']
RateChecked(c) == cfg.rate_limit_enabled /\ address[c] \notin Trusted

\* the state of the limiter after check_rate_limit(address[c])
CheckRateLimit(c) ==
    /\ rate_limiter' = [rate_limiter EXCEPT ![address[c]] = Prune(@, now)]
    /\ allow_log' = Append(allow_log,
                           [ip |-> address[c], at |-> now, seen |-> Len(recorded[address[c]]),
                            dropped |-> Len(rate_limiter[address[c]])
                                           - Len(Prune(rate_limiter[address[c]], now)),
                            ok |-> WithinLimit(Prune(rate_limiter[address[c]], now))])
    /\ UNCHANGED recorded

(***************************************************************************)
(* TCPServer.start: the accept loop.                                       *)
(***************************************************************************)
\* rate limit exceeded: close the connection, continue
AcceptRateLimited(c) ==
    /\ accept_pc = "accept" /\ running
    /\ sock[c] = "pending"
    /\ RateChecked(c)
    /\ ~WithinLimit(Prune(rate_limiter[address[c]], now))
    /\ CheckRateLimit(c)
    /\ sock' = [sock EXCEPT ![c] = "rate_limited"]
    /\ UNCHANGED <<envVars, leafVars, startVars, now, running, accept_pc, accepted, connection_semaphore,
                   connection_count, handlerVars, logVars, rotatorVars, uploadVars>>

\* the rate limit check (if any) passed
PassRateLimit(c) ==
    IF RateChecked(c)
    THEN WithinLimit(Prune(rate_limiter[address[c]], now)) /\ CheckRateLimit(c)
    ELSE UNCHANGED rateVars

\* connection_semaphore.acquire(blocking=False) fails: close the connection, continue
AcceptPoolExhausted(c) ==
    /\ accept_pc = "accept" /\ running
    /\ sock[c] = "pending"
    /\ PassRateLimit(c)
    /\ connection_semaphore = 0
    /\ sock' = [sock EXCEPT ![c] = "max_connections_rejected"]
    /\ UNCHANGED <<envVars, leafVars, startVars, now, running, accept_pc, accepted, connection_semaphore,
                   connection_count, handlerVars, logVars, rotatorVars, uploadVars>>

\* a faulty variant of SlotsAfterAcquire: the slot is not taken
SlotsAfterAcquireKeeps(n) == n

\* connection_semaphore.acquire(blocking=False) succeeds
SlotsAfterAcquire(n) == n - 1

AcceptAcquire(c) ==
    /\ accept_pc = "accept" /\ running
    /\ sock[c] = "pending"
    /\ PassRateLimit(c)
    /\ connection_semaphore > 0
    /\ connection_semaphore' = SlotsAfterAcquire(connection_semaphore)
    /\ sock' = [sock EXCEPT ![c] = "admitted"]
    /\ accept_pc' = "admit"
    /\ accepted' = c
    /\ UNCHANGED <<envVars, leafVars, startVars, now, running, connection_count, handlerVars, logVars,
                   rotatorVars, uploadVars>>

\* with self.connection_lock: self.connection_count += 1; client_thread.start()
AcceptDispatch ==
    /\ accept_pc = "admit"
    /\ connection_count' = connection_count + 1
    /\ hpc' = [hpc EXCEPT ![accepted] = "loop"]
    /\ accept_pc' = "accept"
    /\ UNCHANGED <<exit_path, envVars, leafVars, startVars, now, sock, running, accepted, connection_semaphore, rateVars,
                   wire, received, message_buffer, total_received, event_data, logVars, rotatorVars,
                   uploadVars>>

\* while self.running fails: finally self.stop()
AcceptExit ==
    /\ accept_pc = "accept" /\ ~running
    /\ accept_pc' = "stopped"
    /\ UNCHANGED <<envVars, leafVars, startVars, now, sock, running, accepted, connection_semaphore,
                   connection_count, rateVars, handlerVars, logVars, rotatorVars, uploadVars>>

(***************************************************************************)
(* TCPServer.handle_client: the handler thread of connection c.            *)
(***************************************************************************)
\* the lengths client_socket.recv(4096) can return
RecvLens(c) ==
    IF chunking[c] = 0
    THEN 1..Min(Len(wire[c]), 4096)
    ELSE {Min(Min(chunking[c], Len(wire[c])), 4096)}

\* the inner loop "while b"</EVENT>" in message_buffer" entered with buffer buf: either
\* the next event is cut off and goes to the file, or the handler reads again
ScanGreedy(c, buf) ==
    IF HasEvent(buf)
    THEN /\ event_data' = [event_data EXCEPT ![c] = StripDeclaration(TakeEvent(buf))]
         /\ message_buffer' = [message_buffer EXCEPT ![c] = DropEvent(buf)]
         /\ hpc' = [hpc EXCEPT ![c] = "lock"]
    ELSE /\ message_buffer' = [message_buffer EXCEPT ![c] = buf]
         /\ hpc' = [hpc EXCEPT ![c] = "loop"]
         /\ UNCHANGED event_data

\* a faulty variant of Scan: an event is dropped while the window of its source is full
ScanWithinLimit(c, buf) ==
    IF HasEvent(buf) /\ ~WithinLimit(Prune(rate_limiter[address[c]], now))
    THEN /\ message_buffer' = [message_buffer EXCEPT ![c] = DropEvent(buf)]
         /\ hpc' = [hpc EXCEPT ![c] = "loop"]
         /\ UNCHANGED event_data
    ELSE ScanGreedy(c, buf)

\* while b"</EVENT>" in message_buffer: no call of check_rate_limit in the handler
Scan(c, buf) == ScanGreedy(c, buf)

\* a faulty variant of LoopContinues: the handler does not look at the flag
LoopContinuesAlways(flag) == TRUE

\* while self.running
LoopContinues(flag) == flag

HandlerLoop(c) ==
    /\ hpc[c] = "loop"
    /\ hpc' = [hpc EXCEPT ![c] = IF LoopContinues(running) THEN "recv" ELSE "finally"]
    /\ exit_path' = IF LoopContinues(running) THEN exit_path
                                              ELSE [exit_path EXCEPT ![c] = "shutdown"]
    /\ UNCHANGED <<envVars, leafVars, startVars, now, listenerVars, rateVars, wire, received, message_buffer, total_received,
                   event_data, logVars, rotatorVars, uploadVars>>

\* a faulty variant of OverLimit: the size of the message is not limited
OverLimitNever(total) == FALSE

\* if total_received > self.max_message_size
OverLimit(total) == total > cfg.max_message_size

\* data = client_socket.recv(4096), data not empty
HandlerRecvData(c) ==
    /\ hpc[c] = "recv"
    /\ wire[c] # <<>>
    /\ \E k \in RecvLens(c) :
          LET data == SubSeq(wire[c], 1, k)
              total == total_received[c] + Len(data)
          IN  /\ wire' = [wire EXCEPT ![c] = SliceFrom(@, k)]
              /\ received' = [received EXCEPT ![c] = @ \o data]
              /\ total_received' = [total_received EXCEPT ![c] = total]
              /\ IF OverLimit(total)
                 THEN /\ hpc' = [hpc EXCEPT ![c] = "finally"]
                      /\ exit_path' = [exit_path EXCEPT ![c] = "size_limit"]
                      /\ UNCHANGED <<message_buffer, event_data>>
                 ELSE /\ Scan(c, message_buffer[c] \o data)
                      /\ UNCHANGED exit_path
    /\ UNCHANGED <<envVars, leafVars, startVars, now, listenerVars, rateVars, logVars, rotatorVars, uploadVars>>

\* recv returns b"": the client disconnected
HandlerRecvClosed(c) ==
    /\ hpc[c] = "recv"
    /\ wire[c] = <<>>
    /\ hpc' = [hpc EXCEPT ![c] = "finally"]
    /\ exit_path' = [exit_path EXCEPT ![c] = "disconnect"]
    /\ UNCHANGED <<envVars, leafVars, startVars, now, listenerVars, rateVars, wire, received, message_buffer, total_received,
                   event_data, logVars, rotatorVars, uploadVars>>

\* except socket.timeout: no data for 30 seconds
HandlerRecvTimeout(c) ==
    /\ hpc[c] = "recv"
    /\ hpc' = [hpc EXCEPT ![c] = "finally"]
    /\ exit_path' = [exit_path EXCEPT ![c] = "timeout"]
    /\ UNCHANGED <<envVars, leafVars, startVars, now, listenerVars, rateVars, wire, received, message_buffer, total_received,
                   event_data, logVars, rotatorVars, uploadVars>>

\* a faulty variant of CanAcquire: the lock is not the one the other threads hold
CanAcquireUnshared(lock) == TRUE

\* threading.Lock.acquire returns: the lock is free
CanAcquire(lock) == lock = Free

\* with self.file_lock
HandlerLock(c) ==
    /\ hpc[c] = "lock"
    /\ CanAcquire(file_lock)
    /\ file_lock' = HeldByHandler(c)
    /\ hpc' = [hpc EXCEPT ![c] = "write"]
    /\ UNCHANGED <<exit_path, envVars, leafVars, startVars, now, listenerVars, rateVars, wire, received, message_buffer, total_received,
                   event_data, current_file, event_count, appended, rotatorVars, uploadVars>>
    /\ lock_order' = Append(lock_order, c)

\* except Exception: open(self.current_file, "ab") raises, the with statement releases the
\* lock and the event is dropped
HandlerOpenError(c) ==
    /\ hpc[c] = "write"
    /\ file_lock' = Free
    /\ hpc' = [hpc EXCEPT ![c] = "finally"]
    /\ exit_path' = [exit_path EXCEPT ![c] = "error"]
    /\ UNCHANGED <<envVars, leafVars, startVars, now, listenerVars, rateVars, wire, received, message_buffer,
                   total_received, event_data, current_file, event_count, appended, rotatorVars,
                   uploadVars>>
    /\ UNCHANGED lock_order

\* f.write(event_data)
HandlerWrite(c) ==
    /\ hpc[c] = "write"
    /\ current_file' = current_file \o event_data[c]
    /\ hpc' = [hpc EXCEPT ![c] = "newline"]
    /\ UNCHANGED <<exit_path, envVars, leafVars, startVars, now, listenerVars, rateVars, wire, received, message_buffer, total_received,
                   event_data, event_count, file_lock, lock_order, appended, rotatorVars, uploadVars>>

\* f.write(b"\n"), the file is closed and the lock released
HandlerNewline(c) ==
    /\ hpc[c] = "newline"
    /\ current_file' = current_file \o <<"\n">>
    /\ file_lock' = Free
    /\ appended' = Append(appended, [c |-> c, data |-> event_data[c]])
    /\ hpc' = [hpc EXCEPT ![c] = "count"]
    /\ UNCHANGED <<exit_path, envVars, leafVars, startVars, now, listenerVars, rateVars, wire, received, message_buffer, total_received,
                   event_data, event_count, rotatorVars, uploadVars>>
    /\ UNCHANGED lock_order

\* with self.event_count_lock: self.event_count += 1
HandlerCount(c) ==
    /\ hpc[c] = "count"
    /\ event_count' = event_count + 1
    /\ IF cfg.rate_limit_enabled
       THEN /\ hpc' = [hpc EXCEPT ![c] = "rate"]
            /\ UNCHANGED <<message_buffer, event_data>>
       ELSE Scan(c, message_buffer[c])
    /\ UNCHANGED <<exit_path, envVars, leafVars, startVars, now, listenerVars, rateVars, wire, received, total_received,
                   current_file, file_lock, lock_order, appended, rotatorVars, uploadVars>>

\* a faulty variant of update_rate_limit: the timestamp is not kept
update_rate_limit_skips(window, t) == window

\* self.rate_limiter[ip_address].append(time.time())
update_rate_limit(window, t) == Append(window, t)

\* self.update_rate_limit(address[0])
HandlerRate(c) ==
    /\ hpc[c] = "rate"
    /\ rate_limiter' = [rate_limiter EXCEPT ![address[c]] = update_rate_limit(@, now)]
    /\ recorded' = [recorded EXCEPT ![address[c]] = Append(@, now)]
    /\ Scan(c, message_buffer[c])
    /\ UNCHANGED <<exit_path, envVars, leafVars, startVars, now, listenerVars, allow_log, wire, received, total_received,
                   logVars, rotatorVars, uploadVars>>

\* a faulty variant of SlotsAfterRelease: the slot is not given back
SlotsAfterReleaseKeeps(n) == n

\* finally: client_socket.close(); self.connection_semaphore.release()
SlotsAfterRelease(n) == n + 1

HandlerRelease(c) ==
    /\ hpc[c] = "finally"
    /\ sock' = [sock EXCEPT ![c] = "closed"]
    /\ connection_semaphore' = SlotsAfterRelease(connection_semaphore)
    /\ hpc' = [hpc EXCEPT ![c] = "dec"]
    /\ UNCHANGED <<exit_path, envVars, leafVars, startVars, now, running, accept_pc, accepted, connection_count, rateVars,
                   wire, received, message_buffer, total_received, event_data, logVars, rotatorVars,
                   uploadVars>>

\* finally: with self.connection_lock: self.connection_count -= 1
HandlerDecrement(c) ==
    /\ hpc[c] = "dec"
    /\ connection_count' = connection_count - 1
    /\ hpc' = [hpc EXCEPT ![c] = "exited"]
    /\ UNCHANGED <<exit_path, envVars, leafVars, startVars, now, sock, running, accept_pc, accepted, connection_semaphore,
                   rateVars, wire, received, message_buffer, total_received, event_data, logVars,
                   rotatorVars, uploadVars>>

(***************************************************************************)
(* XML as xml.etree.ElementTree reads it, for documents made of elements   *)
(* without attributes, text and processing instructions.                   *)
(***************************************************************************)
RECURSIVE Tokens(_, _)
\* the markup and text tokens of s from the 1-based position i on
Tokens(s, i) ==
    IF i > Len(s) THEN <<>>
    ELSE IF s[i] = "<"
    THEN IF i < Len(s) /\ s[i + 1] = "?"
         THEN LET r == Find(SliceFrom(s, i + 1), XmlDeclEnd)
              IN  IF r = -1 THEN <<[k |-> "bad", v |-> <<>>, at |-> i]>>
                  ELSE <<[k |-> "pi", v |-> SubSeq(s, i + 2, i + 1 + r), at |-> i]>>
                       \o Tokens(s, i + 4 + r)
         ELSE IF i < Len(s) /\ s[i + 1] = "/"
         THEN LET r == Find(SliceFrom(s, i + 1), <<">">>)
              IN  IF r = -1 THEN <<[k |-> "bad", v |-> <<>>, at |-> i]>>
                  ELSE <<[k |-> "close", v |-> SubSeq(s, i + 2, i + 1 + r), at |-> i]>>
                       \o Tokens(s, i + 3 + r)
         ELSE LET r == Find(SliceFrom(s, i), <<">">>)
                  inner == SubSeq(s, i + 1, i + r)
              IN  IF r = -1 THEN <<[k |-> "bad", v |-> <<>>, at |-> i]>>
                  ELSE IF inner # <<>> /\ inner[Len(inner)] = "/"
                  THEN <<[k |-> "empty", v |-> SubSeq(inner, 1, Len(inner) - 1), at |-> i]>>
                       \o Tokens(s, i + 2 + r)
                  ELSE <<[k |-> "open", v |-> inner, at |-> i]>> \o Tokens(s, i + 2 + r)
    ELSE LET r == Find(SliceFrom(s, i - 1), <<"<">>)
         IN  IF r = -1 THEN <<[k |-> "text", v |-> SliceFrom(s, i - 1), at |-> i]>>
             ELSE <<[k |-> "text", v |-> SubSeq(s, i, i + r - 1), at |-> i]>> \o Tokens(s, i + r)

NotNameChars == Whitespace \cup {"<", ">", "/", "?", "&", "=", "\"", "'"}

IsName(n) == n # <<>> /\ \A i \in 1..Len(n) : n[i] \notin NotNameChars

\* the target of a processing instruction: its body up to the first whitespace
PiTarget(body) ==
    IF \E i \in 1..Len(body) : body[i] \in Whitespace
    THEN SubSeq(body, 1, (CHOOSE i \in 1..Len(body) :
                             body[i] \in Whitespace /\ \A j \in 1..(i - 1) : body[j] \notin Whitespace) - 1)
    ELSE body

\* a processing instruction is legal; the XML declaration only at the start of the document
PiOk(tok) ==
    /\ IsName(PiTarget(tok.v))
    /\ PiTarget(tok.v) = <<"x", "m", "l">> => tok.at = 1

RECURSIVE WellFormedFrom(_, _, _, _)
\* tokens k.. of toks close the open elements of stack and complete one root element
WellFormedFrom(toks, k, stack, rootDone) ==
    IF k > Len(toks) THEN stack = <<>> /\ rootDone
    ELSE LET tok == toks[k]
         IN  CASE tok.k = "bad" -> FALSE
               [] tok.k = "pi" -> PiOk(tok) /\ WellFormedFrom(toks, k + 1, stack, rootDone)
               [] tok.k = "text" ->
                    /\ IF stack = <<>>
                       THEN \A i \in 1..Len(tok.v) : tok.v[i] \in Whitespace
                       ELSE \A i \in 1..Len(tok.v) : tok.v[i] # "&"
                    /\ WellFormedFrom(toks, k + 1, stack, rootDone)
               [] tok.k = "open" ->
                    /\ IsName(tok.v)
                    /\ ~(stack = <<>> /\ rootDone)
                    /\ WellFormedFrom(toks, k + 1, <<tok.v>> \o stack, rootDone)
               [] tok.k = "empty" ->
                    /\ IsName(tok.v)
                    /\ ~(stack = <<>> /\ rootDone)
                    /\ WellFormedFrom(toks, k + 1, stack, rootDone \/ stack = <<>>)
               [] tok.k = "close" ->
                    /\ stack # <<>>
                    /\ Head(stack) = tok.v
                    /\ WellFormedFrom(toks, k + 1, Tail(stack), rootDone \/ Tail(stack) = <<>>)

\* ET.parse(path) does not raise ParseError
ParsesAsXml(doc) == WellFormedFrom(Tokens(doc, 1), 1, <<>>, FALSE)

(***************************************************************************)
(* FormatConverter.convert_to_json.                                        *)
(***************************************************************************)
EventTag == <<"E", "V", "E", "N", "T">>
EventsTag == <<"E", "V", "E", "N", "T", "S">>

IsStart(tok) == tok.k \in {"open", "empty"}

\* the number of elements open before token k
Depth(toks, k) ==
    Cardinality({j \in 1..(k - 1) : toks[j].k = "open"})
        - Cardinality({j \in 1..(k - 1) : toks[j].k = "close"})

\* the token that ends the element started by token k
EndOf(toks, k) ==
    IF toks[k].k = "empty" THEN k
    ELSE CHOOSE j \in (k + 1)..Len(toks) :
            /\ toks[j].k = "close" /\ Depth(toks, j + 1) = Depth(toks, k)
            /\ \A i \in (k + 1)..(j - 1) :
                  ~(toks[i].k = "close" /\ Depth(toks, i + 1) = Depth(toks, k))

RECURSIVE Ascending(_)
\* the members of a set of numbers in ascending order
Ascending(S) ==
    IF S = {} THEN <<>>
    ELSE LET m == CHOOSE x \in S : \A y \in S : x <= y
         IN  <<m>> \o Ascending(S \ {m})

Reverse(s) == [i \in 1..Len(s) |-> s[Len(s) + 1 - i]]

\* str.strip()
Strip(s) == Reverse(LStrip(Reverse(LStrip(s))))

\* a faulty variant of ChildText: the text is taken as it stands
ChildTextUntrimmed(toks, c) ==
    IF toks[c].k = "open" /\ c < Len(toks) /\ toks[c + 1].k = "text"
    THEN toks[c + 1].v
    ELSE <<>>

\* child.text.strip() if child.text is not None else ""
ChildText(toks, c) ==
    IF toks[c].k = "open" /\ c < Len(toks) /\ toks[c + 1].k = "text"
    THEN Strip(toks[c + 1].v)
    ELSE <<>>

\* event_dict[tag] = text
DictPut(d, tag, text) ==
    IF \E i \in 1..Len(d) : d[i].tag = tag
    THEN [i \in 1..Len(d) |-> IF d[i].tag = tag THEN [tag |-> tag, text |-> text] ELSE d[i]]
    ELSE Append(d, [tag |-> tag, text |-> text])

RECURSIVE DictOf(_, _, _)
\* for child in event: event_dict[child.tag] = ...
DictOf(toks, children, d) ==
    IF children = <<>> THEN d
    ELSE DictOf(toks, Tail(children),
                DictPut(d, toks[Head(children)].v, ChildText(toks, Head(children))))

\* the dictionary of the EVENT element started by token e
EventDict(toks, e) ==
    DictOf(toks,
           Ascending({c \in (e + 1)..(EndOf(toks, e) - 1) :
                         IsStart(toks[c]) /\ Depth(toks, c) = Depth(toks, e) + 1}),
           <<>>)

\* the EVENT elements among tokens lo..hi, in document order
EventStarts(toks, lo, hi) ==
    Ascending({k \in lo..hi : IsStart(toks[k]) /\ toks[k].v = EventTag})

RECURSIVE Subtrees(_, _)
\* events_root.findall(".//EVENT") after the EVENT elements were appended to a new root
Subtrees(toks, starts) ==
    IF starts = <<>> THEN <<>>
    ELSE EventStarts(toks, Head(starts), EndOf(toks, Head(starts))) \o Subtrees(toks, Tail(starts))

\* root.findall(".//EVENT"), after the root was replaced when it is not EVENTS
EventElements(toks) ==
    LET r == CHOOSE k \in 1..Len(toks) : IsStart(toks[k]) /\ \A j \in 1..(k - 1) : ~IsStart(toks[j])
    IN  IF toks[r].v = EventsTag THEN EventStarts(toks, r + 1, Len(toks))
        ELSE IF toks[r].v = EventTag THEN EventStarts(toks, r, Len(toks))
        ELSE Subtrees(toks, EventStarts(toks, r + 1, Len(toks)))

\* the events_list written as JSON, or None (ok = FALSE) on a ParseError
convert_to_json(doc) ==
    IF ~ParsesAsXml(doc) THEN [ok |-> FALSE, events |-> <<>>]
    ELSE LET toks == Tokens(doc, 1)
             es == EventElements(toks)
         IN  [ok |-> TRUE, events |-> [i \in 1..Len(es) |-> EventDict(toks, es[i])]]

(***************************************************************************)
(* S3Client.upload_file: error classification and backoff.                 *)
(***************************************************************************)
\* a faulty variant of FatalCodes: no error is fatal
FatalCodesNone == {}

FatalCodes == {"AccessDenied", "InvalidAccessKeyId", "SignatureDoesNotMatch"}
ThrottleCodes == {"SlowDown", "RequestTimeTooSkewed", "RequestTimeout"}

\* a faulty variant of RetriesLeft: the last attempt is not made
RetriesLeftOneShort(k) == k + 1 < cfg.max_retries

\* a faulty variant of RetriesLeft: one attempt more is made
RetriesLeftOneMore(k) == k < cfg.max_retries + 1

\* if attempt < self.max_retries
RetriesLeft(k) == k < cfg.max_retries

\* a faulty variant of Backoff: the delay grows linearly
BackoffLinear(k) == cfg.retry_base_delay * k

\* delay = self.retry_base_delay * (2 ** (attempt - 1))
Backoff(k) == cfg.retry_base_delay * (2 ^ (k - 1))

(***************************************************************************)
(* FileManager.rotation_loop and rotate_file: the rotation thread.         *)
(***************************************************************************)
\* b'<?xml version="1.0" encoding="UTF-8"?>\n<EVENTS>\n'
WrapHead ==
    <<"<", "?", "x", "m", "l", " ", "v", "e", "r", "s", "i", "o", "n", "=", "\"", "1",
      ".", "0", "\"", " ", "e", "n", "c", "o", "d", "i", "n", "g", "=", "\"", "U", "T",
      "F", "-", "8", "\"", "?", ">", "\n", "<", "E", "V", "E", "N", "T", "S", ">", "\n">>

\* b'\n</EVENTS>'
WrapTail ==
    <<"\n", "<", "/", "E", "V", "E", "N", "T", "S", ">">>

Wrap(content) == WrapHead \o content \o WrapTail

XmlBody(bytes) == [format |-> "xml", bytes |-> bytes, events |-> <<>>]
JsonBody(events) == [format |-> "json", bytes |-> <<>>, events |-> events]

InitRot ==
    [timestamp |-> 0, event_count |-> 0, content |-> <<>>, is_valid_xml |-> FALSE,
     processed |-> XmlBody(<<>>), s3_key |-> [stamp |-> 0, suffix |-> "", ext |-> ""],
     outcome |-> "none", uncounted |-> {}, calls_before |-> 0, converter_called |-> FALSE]

\* a faulty variant of RotationNeeded: the size of the file is not looked at
RotationNeededTimeOnly == now - last_rotation_time >= cfg.rotation_interval

\* the time and size triggers of rotation_loop
RotationNeeded ==
    \/ now - last_rotation_time >= cfg.rotation_interval
    \/ Len(current_file) >= cfg.max_file_size

\* one pass of "while self.running" up to rotate_file or the sleep
RotPoll ==
    /\ rpc = "poll"
    /\ IF ~fm_running
       THEN /\ rpc' = "stopped"
            /\ UNCHANGED <<current_time, wake, rot>>
       ELSE /\ current_time' = now
            /\ IF RotationNeeded
               THEN /\ rpc' = "acquire"
                    /\ rot' = [InitRot EXCEPT !.timestamp = now]
                    /\ UNCHANGED wake
               ELSE /\ rpc' = "sleep"
                    /\ wake' = now + cfg.check_interval
                    /\ UNCHANGED rot
    /\ UNCHANGED <<envVars, leafVars, startVars, now, listenerVars, rateVars, handlerVars, logVars, fm_running,
                   last_rotation_time, uploadVars>>

\* a faulty variant of Truncated: the file is left as it is
TruncatedKeepsContent(file) == file

\* the file as truncation leaves it: open(self.current_file, "w")
Truncated(file) == <<>>

\* a faulty variant of AfterRead: reading the batch takes it out of the file
AfterReadDrained(file) == <<>>

\* the file after rotate_file has read it: open(self.current_file, "rb").read()
AfterRead(file) == file

\* with self.file_lock: the file is empty, "Skipping rotation for empty file"
RotSkipEmpty ==
    /\ rpc = "acquire"
    /\ CanAcquire(file_lock)
    /\ Len(current_file) = 0
    /\ rot' = [rot EXCEPT !.event_count = event_count, !.outcome = "skipped"]
    /\ rpc' = "returned"
    /\ UNCHANGED <<envVars, leafVars, startVars, now, listenerVars, rateVars, handlerVars, logVars, fm_running,
                   last_rotation_time, current_time, wake, uploadVars>>

\* except Exception: "Error during file rotation", an operation on the temp file raises
\* before the upload; the with statement releases the lock
RotInternalError ==
    /\ rpc = "acquire"
    /\ CanAcquire(file_lock)
    /\ Len(current_file) # 0
    /\ rot' = [rot EXCEPT !.event_count = event_count, !.content = current_file,
                          !.outcome = "error"]
    /\ rpc' = "returned"
    /\ UNCHANGED <<envVars, leafVars, startVars, now, listenerVars, rateVars, handlerVars, logVars, fm_running,
                   last_rotation_time, current_time, wake, uploadVars>>

\* a faulty variant of ConverterInvoked: the validation is not looked at
ConverterInvokedUnvalidated(is_json_output, is_valid_xml) == is_json_output

\* if self.format_converter.is_json_output() and is_valid_xml
ConverterInvoked(is_json_output, is_valid_xml) == is_json_output /\ is_valid_xml

\* rotate_file from the read of the file to the upload call: read, wrap, validate and
\* convert, count being what get_event_count returned
RotReadWrapConvert(count) ==
    /\ current_file' = AfterRead(current_file)
    /\ \E io_error \in (IF cfg.output_format = "json" THEN BOOLEAN ELSE {FALSE}) :
          LET content == current_file
              wrapped == Wrap(content)
              valid == ParsesAsXml(wrapped)
              converted == convert_to_json(wrapped)
              invoked == ConverterInvoked(cfg.output_format = "json", valid)
              json == invoked /\ converted.ok /\ ~io_error
              ext == IF json THEN ".json" ELSE ".xml"
          IN  rot' = [rot EXCEPT
                        !.event_count = count,
                        !.uncounted = {c \in Conns : hpc[c] = "count"},
                        !.calls_before = Len(upload_calls),
                        !.converter_called = invoked,
                        !.content = content,
                        !.is_valid_xml = valid,
                        !.processed = IF json THEN JsonBody(converted.events) ELSE XmlBody(wrapped),
                        !.s3_key = IF valid
                                   THEN [stamp |-> rot.timestamp, suffix |-> "", ext |-> ext]
                                   ELSE [stamp |-> rot.timestamp, suffix |-> "_raw", ext |-> ".xml"],
                        !.outcome = "uploading"]
    /\ rpc' = "upload"
    /\ attempt' = 1
    /\ slept' = <<>>
    /\ answered' = <<>>

\* with self.file_lock: read, wrap, validate and convert, up to the upload call
RotBegin ==
    /\ rpc = "acquire"
    /\ CanAcquire(file_lock)
    /\ Len(current_file) # 0
    /\ file_lock' = HeldByRotator
    /\ RotReadWrapConvert(event_count)
    /\ UNCHANGED <<envVars, leafVars, startVars, now, listenerVars, rateVars, handlerVars, event_count, appended,
                   fm_running, last_rotation_time, current_time, wake, upload_calls, bucket>>
    /\ UNCHANGED lock_order

(***************************************************************************)
(* Object keys: S3Client.get_s3_key and the key rotate_file builds.        *)
(***************************************************************************)
Digits == <<"0", "1", "2", "3", "4", "5", "6", "7", "8", "9">>

\* %H, %M, %S: two decimal digits
TwoDigits(n) == <<Digits[(n \div 10) + 1], Digits[(n % 10) + 1]>>

\* datetime.now(timezone.utc).strftime("%Y%m%d_%H%M%S"), the clock reading t seconds after
\* 2025-07-29 00:00:00
Strftime(t) ==
    <<"2", "0", "2", "5", "0", "7", "2", "9", "_">>
        \o TwoDigits((t \div 3600) % 24) \o TwoDigits((t \div 60) % 60) \o TwoDigits(t % 60)

\* the bytes of the literals rotate_file puts into keys
Bytes(str) ==
    CASE str = "" -> <<>>
      [] str = "_raw" -> <<"_", "r", "a", "w">>
      [] str = ".xml" -> <<".", "x", "m", "l">>
      [] str = ".json" -> <<".", "j", "s", "o", "n">>

\* os.path.basename
basename(path) ==
    LET slashes == {i \in 1..Len(path) : path[i] = "/"}
    IN  IF slashes = {} THEN path
        ELSE SliceFrom(path, CHOOSE i \in slashes : \A j \in slashes : j <= i)

\* S3Client.get_s3_key
get_s3_key(filename) ==
    LET base_filename == basename(filename)
    IN  IF cfg.use_date_folders /\ Len(base_filename) >= 8
        THEN cfg.prefix \o Slice(base_filename, 0, 4) \o <<"/">> \o Slice(base_filename, 4, 6)
                 \o <<"/">> \o Slice(base_filename, 6, 8) \o <<"/">> \o base_filename
        ELSE cfg.prefix \o base_filename

\* s3_key = f"{timestamp}{file_extension}", fallback_key = f"{timestamp}_raw.xml"
KeyOf(key) == Strftime(key.stamp) \o Bytes(key.suffix) \o Bytes(key.ext)

\* the path of the file rotate_file hands to upload_file: the temp file, the converted
\* file beside it, or the current file
FilePath ==
    IF ~rot.is_valid_xml
    THEN <<".", "/", "c", "u", "r", "r", "e", "n", "t", ".", "x", "m", "l">>
    ELSE <<".", "/", "t", "e", "m", "p">> \o Bytes(IF rot.processed.format = "json" THEN ".json" ELSE ".xml")

\* upload_file: if not s3_key: s3_key = self.get_s3_key(os.path.basename(file_path))
StoreKey(file_path, s3_key) ==
    IF s3_key = <<>> THEN get_s3_key(basename(file_path)) ELSE s3_key

\* a faulty variant of UploadBody: the wrapped form is uploaded in either case
UploadBodyWrapped == rot.processed

\* the file rotate_file hands to upload_file
UploadBody ==
    IF rot.is_valid_xml THEN rot.processed ELSE XmlBody(current_file)

\* upload_file returns False: "Failed to upload rotated file to S3", the lock is released
UploadFailed(o) ==
    /\ upload_calls' = Append(upload_calls,
                              [key |-> rot.s3_key, body |-> UploadBody, ok |-> FALSE,
                               attempts |-> attempt, slept |-> slept, last |-> o,
                               answers |-> Append(answered, o),
                               store_key |-> StoreKey(FilePath, KeyOf(rot.s3_key))])
    /\ rot' = [rot EXCEPT !.outcome = "failed"]
    /\ file_lock' = Free
    /\ rpc' = "returned"
    /\ UNCHANGED <<attempt, slept, answered, bucket>>
    /\ UNCHANGED lock_order

\* upload_file returns False without an attempt: the file does not exist, or
\* range(1, max_retries + 1) is empty
UploadNotTried(why) ==
    /\ upload_calls' = Append(upload_calls,
                              [key |-> rot.s3_key, body |-> UploadBody, ok |-> FALSE,
                               attempts |-> 0, slept |-> <<>>, last |-> why, answers |-> <<>>,
                               store_key |-> <<>>])
    /\ rot' = [rot EXCEPT !.outcome = "failed"]
    /\ file_lock' = Free
    /\ rpc' = "returned"
    /\ UNCHANGED <<attempt, slept, answered, bucket>>
    /\ UNCHANGED lock_order

\* if not os.path.exists(file_path): return False, the file having been removed by another
\* process since rotate_file wrote it
RotUploadMissing ==
    /\ rpc = "upload"
    /\ answered = <<>>
    /\ UploadNotTried("no_file")
    /\ UNCHANGED <<envVars, leafVars, startVars, now, listenerVars, rateVars, handlerVars, current_file, event_count,
                   appended, fm_running, last_rotation_time, current_time, wake>>

\* one attempt of upload_file, answered o by the store
RotUpload ==
    /\ rpc = "upload"
    /\ \E o \in store :
          IF cfg.max_retries < 1
          THEN UploadNotTried("no_attempt")
          ELSE IF o = "ok"
          THEN /\ upload_calls' = Append(upload_calls,
                                         [key |-> rot.s3_key, body |-> UploadBody, ok |-> TRUE,
                                          attempts |-> attempt, slept |-> slept, last |-> o,
                               answers |-> Append(answered, o),
                               store_key |-> StoreKey(FilePath, KeyOf(rot.s3_key))])
               /\ bucket' = Append(bucket, [key |-> rot.s3_key, body |-> UploadBody])
               /\ rot' = [rot EXCEPT !.outcome = "uploaded"]
               /\ rpc' = "truncate"
               /\ UNCHANGED <<attempt, slept, answered, file_lock, lock_order>>
          ELSE IF o \in FatalCodes
          THEN UploadFailed(o)
          ELSE IF RetriesLeft(attempt)
          THEN /\ slept' = Append(slept, Backoff(attempt))
               /\ answered' = Append(answered, o)
               /\ attempt' = attempt + 1
               /\ UNCHANGED <<upload_calls, bucket, rot, file_lock, lock_order, rpc>>
          ELSE UploadFailed(o)
    /\ UNCHANGED <<envVars, leafVars, startVars, now, listenerVars, rateVars, handlerVars, current_file, event_count,
                   appended, fm_running, last_rotation_time, current_time, wake>>

\* if success: reset current file
RotTruncate ==
    /\ rpc = "truncate"
    /\ current_file' = Truncated(current_file)
    /\ rpc' = "reset"
    /\ UNCHANGED <<envVars, leafVars, startVars, now, listenerVars, rateVars, handlerVars, event_count, file_lock, lock_order,
                   appended, fm_running, last_rotation_time, current_time, wake, rot, uploadVars>>

\* a faulty variant of CountAfterReset: the counter is read but not reset
CountAfterResetKeeps(n) == n

\* get_and_reset_event_count: self.event_count = 0
CountAfterReset(n) == 0

\* self.tcp_server.get_and_reset_event_count(); the lock is released
RotResetCount ==
    /\ rpc = "reset"
    /\ event_count' = CountAfterReset(event_count)
    /\ rot' = [rot EXCEPT !.outcome = "rotated"]
    /\ file_lock' = Free
    /\ rpc' = "returned"
    /\ UNCHANGED <<envVars, leafVars, startVars, now, listenerVars, rateVars, handlerVars, current_file, appended,
                   fm_running, last_rotation_time, current_time, wake, uploadVars>>
    /\ UNCHANGED lock_order

\* a faulty variant of ClockAfterRotation: only a successful rotation resets the clock
ClockAfterRotationOnSuccess(outcome) ==
    IF outcome = "rotated" THEN current_time ELSE last_rotation_time

\* last_rotation_time = current_time, whatever rotate_file did
ClockAfterRotation(outcome) == current_time

\* last_rotation_time = current_time; time.sleep(self.check_interval)
RotReturned ==
    /\ rpc = "returned"
    /\ last_rotation_time' = ClockAfterRotation(rot.outcome)
    /\ wake' = now + cfg.check_interval
    /\ rot' = InitRot
    /\ rpc' = "sleep"
    /\ UNCHANGED <<envVars, leafVars, startVars, now, listenerVars, rateVars, handlerVars, logVars, fm_running,
                   current_time, uploadVars>>

\* time.sleep(self.check_interval) returns
RotWake ==
    /\ rpc = "sleep"
    /\ now >= wake
    /\ rpc' = "poll"
    /\ UNCHANGED <<envVars, leafVars, startVars, now, listenerVars, rateVars, handlerVars, logVars, fm_running,
                   last_rotation_time, current_time, wake, rot, uploadVars>>

(***************************************************************************)
(* Initial states and specifications.                                      *)
(***************************************************************************)
\* the defaults of TCPServer.__init__, S3Client.__init__, FormatConverter.__init__ and
\* FileManager.__init__
DefaultConfig ==
    [max_connections |-> 50, max_message_size |-> 1024 * 1024, rate_limit_enabled |-> TRUE,
     rate_limit_window |-> 60, rate_limit_max_events |-> 1000, max_retries |-> 5,
     retry_base_delay |-> 1, output_format |-> "xml", rotation_interval |-> 3600,
     max_file_size |-> 10 * 1024 * 1024, check_interval |-> 60,
     prefix |-> <<"x", "m", "l", "-", "e", "v", "e", "n", "t", "s", "/">>,
     use_date_folders |-> FALSE, bucket_name |-> <<"b">>]

\* the state of the components as their constructors leave them
InitBuilt(config, addrs, wires, chunks, answers) ==
    /\ cfg = config
    /\ address = addrs
    /\ wire = wires
    /\ chunking = chunks
    /\ store = answers
    /\ now = 0
    /\ sock = [c \in DOMAIN addrs |-> "pending"]
    /\ accepted = 0
    /\ connection_semaphore = config.max_connections
    /\ connection_count = 0
    /\ rate_limiter = [a \in {addrs[c] : c \in DOMAIN addrs} |-> <<>>]
    /\ allow_log = <<>>
    /\ recorded = [a \in {addrs[c] : c \in DOMAIN addrs} |-> <<>>]
    /\ hpc = [c \in DOMAIN addrs |-> "none"]
    /\ received = [c \in DOMAIN addrs |-> <<>>]
    /\ message_buffer = [c \in DOMAIN addrs |-> <<>>]
    /\ total_received = [c \in DOMAIN addrs |-> 0]
    /\ event_data = [c \in DOMAIN addrs |-> <<>>]
    /\ exit_path = [c \in DOMAIN addrs |-> "none"]
    /\ current_file = <<>>
    /\ event_count = 0
    /\ file_lock = Free
    /\ appended = <<>>
    /\ lock_order = <<>>
    /\ lock_holder = [l \in LeafLocks |-> Free]
    /\ last_rotation_time = 0
    /\ current_time = 0
    /\ wake = 0
    /\ rot = InitRot
    /\ attempt = 0
    /\ slept = <<>>
    /\ answered = <<>>
    /\ upload_calls = <<>>
    /\ bucket = <<>>

\* the state after start_server has built and started the components
InitState(config, addrs, wires, chunks, answers) ==
    /\ InitBuilt(config, addrs, wires, chunks, answers)
    /\ running = TRUE
    /\ accept_pc = "accept"
    /\ fm_running = TRUE
    /\ rpc = "poll"
    /\ exit_status = -1
    /\ bucket_access = "ok"

\* one event <EVENT>x</EVENT> as a client sends it
Event(x) == <<"<", "E", "V", "E", "N", "T", ">", x>> \o Marker

\* the accept loop admits a connection
NextAdmit ==
    \/ \E c \in Conns : AcceptAcquire(c)
    \/ AcceptDispatch

\* a handler receives, frames and appends until its client disconnects
NextIngest ==
    \/ \E c \in Conns : HandlerLoop(c)
    \/ \E c \in Conns : HandlerRecvData(c)
    \/ \E c \in Conns : HandlerRecvClosed(c)
    \/ \E c \in Conns : HandlerLock(c)
    \/ \E c \in Conns : HandlerWrite(c)
    \/ \E c \in Conns : HandlerNewline(c)
    \/ \E c \in Conns : HandlerCount(c)
    \/ \E c \in Conns : HandlerRelease(c)
    \/ \E c \in Conns : HandlerDecrement(c)

\* the rotation thread
NextRotator ==
    \/ RotPoll
    \/ RotSkipEmpty
    \/ RotBegin
    \/ RotUpload
    \/ RotTruncate
    \/ RotResetCount
    \/ RotReturned
    \/ RotWake

(***************************************************************************)
(* Spec: two admitted connections appending while the rotation thread      *)
(* rotates, rate limiting disabled.                                        *)
(***************************************************************************)
Init ==
    InitState([DefaultConfig EXCEPT !.rate_limit_enabled = FALSE, !.max_connections = 2,
                                    !.max_file_size = 17, !.rotation_interval = 60,
                                    !.max_retries = 2],
              <<"10.0.0.1", "10.0.0.2">>,
              <<Event("a"), Event("c")>>,
              <<12, 16>>,
              {"ok", "AccessDenied", "SlowDown"})

Next == NextAdmit \/ NextIngest \/ NextRotator \/ Tick

Spec == Init /\ [][Next]_vars

(***************************************************************************)
(* Properties of appending and rotating (Spec).                            *)
(***************************************************************************)
\* the number of places at which p occurs in s
Count(s, p) == Cardinality({i \in 0..(Len(s) - Len(p)) : OccursAt(s, p, i)})

\* a record as it stands in the file
Line(r) == r.data \o <<"\n">>

\* how often the record stands in the file
InLog(r) == Count(current_file, Line(r))

RECURSIVE InObjects(_, _)
\* how often the record stands in the first n objects of the store
InObjects(r, n) ==
    IF n = 0 THEN 0 ELSE Count(bucket[n].body.bytes, Line(r)) + InObjects(r, n - 1)

InBucket(r) == InObjects(r, Len(bucket))

\* C1: no append is lost or duplicated by a rotation racing the handlers: once an upload
\* has succeeded every record whose append completed is in an uploaded batch, and at any
\* other time a record whose append completed is either in the log or in exactly one
\* uploaded batch, never in both and never in neither.
C1_NoAppendLostOrDuplicated ==
    \A i \in 1..Len(appended) :
        IF rpc = "truncate"
        THEN InBucket(appended[i]) = 1
        ELSE InLog(appended[i]) + InBucket(appended[i]) = 1

\* C1 witness: a record was uploaded in a batch and the log truncated, and the record of a
\* handler that waited for the lock during that rotation is in the log.
C1_AppendsAroundRotation ==
    /\ Len(appended) = 2
    /\ file_lock = Free
    /\ InBucket(appended[1]) = 1 /\ InLog(appended[1]) = 0
    /\ InLog(appended[2]) = 1 /\ InBucket(appended[2]) = 0

InFileSection(c) == hpc[c] \in {"write", "newline"}

RotatorInFileSection == rpc \in {"upload", "truncate", "reset"}

\* C2: at most one thread is inside a section that reads or writes the log file: no two
\* handlers write at once, and no handler writes while the rotation thread is between its
\* read of the log and its truncation.
C2_OneThreadInFileSection ==
    Cardinality({c \in Conns : InFileSection(c)}) + (IF RotatorInFileSection THEN 1 ELSE 0) <= 1

\* C2 witness: a handler with an event to append waits while the rotation thread is
\* between its read and its truncation.
C2_HandlerWaitsForRotation ==
    /\ RotatorInFileSection
    /\ \E c \in Conns : hpc[c] = "lock"

\* C4 (as claimed): the log is truncated only after a successful upload, and when the
\* upload fails the log content and the event counter at the end of the rotation are what
\* they were when the rotation took the lock.
C4_FailedRotationLeavesLogAndCounter ==
    [][/\ (current_file # <<>> /\ current_file' = <<>>) => rot.outcome = "uploaded"
       /\ (rpc = "upload" /\ rpc' = "returned")
             => (current_file' = rot.content /\ event_count' = rot.event_count)]_vars

\* the records of the batch the rotation read
InBatch(r) == Count(rot.content, Line(r)) > 0

FailedRotation == rpc = "returned" /\ rot.outcome = "failed"

\* C5 (as claimed): after a rotation whose upload failed, the records of its batch are no
\* longer in the log.
C5_BatchGoneAfterFailedUpload ==
    FailedRotation => \A i \in 1..Len(appended) : InBatch(appended[i]) => InLog(appended[i]) = 0

\* C5 (amended): after a rotation whose upload failed, the batch is still in the log: the
\* log begins with the content the rotation read, and every record of the batch is in
\* the log once and in no uploaded batch.
C5_BatchKeptAfterFailedUpload ==
    FailedRotation =>
        /\ Len(current_file) >= Len(rot.content)
        /\ SubSeq(current_file, 1, Len(rot.content)) = rot.content
        /\ \A i \in 1..Len(appended) :
              InBatch(appended[i]) => InLog(appended[i]) = 1 /\ InBucket(appended[i]) = 0

\* C5 witness: a rotation that read a batch of at least one record has failed to upload.
C5_RotationFailed ==
    FailedRotation /\ \E i \in 1..Len(appended) : InBatch(appended[i])

\* no handler is between taking the lock for a record and counting it, and no rotation is
\* under way
Quiescent ==
    /\ \A c \in Conns : hpc[c] \notin {"write", "newline", "count"}
    /\ rpc \notin {"acquire", "upload", "truncate", "reset"}

\* the complete records in the log
RecordsInLog == Count(current_file, Marker \o <<"\n">>)

\* C6 (as claimed): at every quiescent point the event counter equals the number of
\* complete records in the log.
C6_CounterEqualsRecordsInLog == Quiescent => event_count = RecordsInLog

(***************************************************************************)
(* SpecFramer: one connection whose stream recv cuts at arbitrary places.  *)
(***************************************************************************)
\* <?xml ?>
Declaration == XmlDeclPrefix \o <<" ">> \o XmlDeclEnd

\* the streams the client sends
FramerStreams ==
    { Event("a") \o Event("b"),
      Declaration \o Event("a") \o <<"\n">> \o Declaration \o <<"\n">> \o Event("b"),
      <<"a">> \o Marker \o Marker \o <<"<", "/", "E">>,
      <<"<", "/", "E", "V">> \o Event("a") \o <<"<", "/", "E", "V", "E", "N", "T">>,
      Event("a") \o Event("b") \o Event("c") \o <<"d", "e", "f">> }

InitFramer ==
    \E stream \in FramerStreams :
        InitState([DefaultConfig EXCEPT !.rate_limit_enabled = FALSE, !.max_connections = 1,
                                        !.max_message_size = 50],
                  <<"10.0.0.1">>, <<stream>>, <<0>>, {"ok"})

SpecFramer == InitFramer /\ [][NextAdmit \/ NextIngest]_vars

\* the offsets at which the markers of s end, in ascending order
MarkerEnds(s) ==
    Ascending({i + Len(Marker) : i \in {j \in 0..(Len(s) - Len(Marker)) : OccursAt(s, Marker, j)}})

\* the n-th segment of s: from the end of the marker before it to the end of its own marker
Segment(s, n) ==
    SubSeq(s, (IF n = 1 THEN 0 ELSE MarkerEnds(s)[n - 1]) + 1, MarkerEnds(s)[n])

\* the records of the stream s: one per marker, in stream order
RecordsOf(s) == [n \in 1..Len(MarkerEnds(s)) |-> StripDeclaration(Segment(s, n))]

\* what follows the last marker of s
Remainder(s) == IF MarkerEnds(s) = <<>> THEN s ELSE SliceFrom(s, MarkerEnds(s)[Len(MarkerEnds(s))])

RECURSIVE Lines(_)
\* records as append writes them, each followed by a newline
Lines(rs) == IF rs = <<>> THEN <<>> ELSE Head(rs) \o <<"\n">> \o Lines(Tail(rs))

\* the handler is not between cutting an event off the buffer and counting it
BetweenEvents(c) == hpc[c] \in {"loop", "recv", "finally", "dec", "exited"}

\* C3: however recv cuts the stream, the records appended are those of the bytes received:
\* while the handler works on an event they are a prefix of them, and between events they
\* are exactly one record per marker received, in stream order, with what follows the last
\* marker still in the buffer.
C3_RecordsIndependentOfChunks ==
    \A c \in Conns :
        total_received[c] <= cfg.max_message_size =>
            LET expected == RecordsOf(received[c])
                got == [i \in 1..Len(appended) |-> appended[i].data]
            IN  /\ Len(got) <= Len(expected)
                /\ got = SubSeq(expected, 1, Len(got))
                /\ BetweenEvents(c) =>
                      /\ Len(got) = Count(received[c], Marker)
                      /\ got = expected
                      /\ current_file = Lines(expected)
                      /\ message_buffer[c] = Remainder(received[c])

\* C3 witness: two records were appended and a third marker is cut in the middle: the
\* buffer ends with its first bytes and the rest is still to be received.
C3_MarkerCutBetweenChunks ==
    \E c \in Conns :
        /\ hpc[c] = "recv"
        /\ Len(appended) = 2
        /\ \E k \in 1..(Len(Marker) - 1) :
              /\ Len(message_buffer[c]) >= k
              /\ SliceFrom(message_buffer[c], Len(message_buffer[c]) - k) = SubSeq(Marker, 1, k)
              /\ Len(wire[c]) >= Len(Marker) - k
              /\ SubSeq(wire[c], 1, Len(Marker) - k) = SubSeq(Marker, k + 1, Len(Marker))

(***************************************************************************)
(* SpecAdmit: admission of four clients to one slot, rate limiting         *)
(* enabled, handlers leaving on every exit path, shutdown.                 *)
(***************************************************************************)
InitAdmit ==
    InitState([DefaultConfig EXCEPT !.max_connections = 1, !.max_message_size = 32,
                                    !.rate_limit_max_events = 1],
              <<"10.0.0.1", "10.0.0.1", "10.0.0.1", "127.0.0.1">>,
              <<Event("a") \o Event("b"), Event("c") \o Event("d") \o <<"x">>, <<>>, <<>>>>,
              <<16, 17, 0, 0>>,
              {"ok"})

NextAdmission ==
    \/ NextAdmit
    \/ \E c \in Conns : AcceptRateLimited(c)
    \/ \E c \in Conns : AcceptPoolExhausted(c)
    \/ AcceptExit
    \/ NextIngest
    \/ \E c \in Conns : HandlerRecvTimeout(c)
    \/ \E c \in Conns : HandlerOpenError(c)
    \/ \E c \in Conns : HandlerRate(c)
    \/ Tick
    \/ Shutdown

SpecAdmit == InitAdmit /\ [][NextAdmission]_vars

(***************************************************************************)
(* Properties of admission and of the rate limiter (SpecAdmit).            *)
(***************************************************************************)
\* the connections that hold a slot: admitted and not yet released
HoldingSlot == {c \in Conns : sock[c] = "admitted"}

\* the connections counted in connection_count
CountedLive == {c \in Conns : hpc[c] \notin {"none", "exited"}}

AllHandlersExited == accept_pc # "admit" /\ \A c \in Conns : hpc[c] \in {"none", "exited"}

\* C7: every admitted connection gives its slot back exactly once and is counted out
\* exactly once, on every exit path: the free slots are max_connections less the
\* connections that hold one, the live counter is the number of handlers started and not
\* yet counted out, a handler that has left has released, and once all handlers have
\* exited the pool is full and the counter zero.
C7_SlotReleasedExactlyOnce ==
    /\ connection_semaphore = cfg.max_connections - Cardinality(HoldingSlot)
    /\ connection_count = Cardinality(CountedLive)
    /\ \A c \in Conns : hpc[c] \in {"dec", "exited"} => sock[c] = "closed"
    /\ \A c \in Conns : sock[c] = "closed" => hpc[c] \in {"dec", "exited"}
    /\ \A c \in Conns : exit_path[c] # "none" <=> hpc[c] \in {"finally", "dec", "exited"}
    /\ AllHandlersExited => connection_semaphore = cfg.max_connections /\ connection_count = 0

\* C7 witness: four handlers have exited, one by an exception while processing, one by
\* the size limit, one by a read timeout and one by the shutdown of the server, and all
\* slots are free again.
C7_HandlersExited ==
    /\ \A c \in Conns : hpc[c] = "exited"
    /\ {exit_path[c] : c \in Conns} = {"error", "size_limit", "timeout", "shutdown"}
    /\ AllHandlersExited
    /\ connection_semaphore = cfg.max_connections /\ connection_count = 0

\* the accept loop closes connection c without admitting it
Rejected(c) ==
    sock[c] = "pending" /\ sock'[c] \in {"rate_limited", "max_connections_rejected"}

\* C8 (as claimed): never more than max_connections handlers hold a slot, and a rejected
\* connection leaves the slot pool, the live counter, the rate windows, the log and the
\* event counter unchanged.
C8_RejectionChangesNothing ==
    [][/\ Cardinality(HoldingSlot') <= cfg.max_connections
       /\ \A c \in Conns :
             Rejected(c) => UNCHANGED <<connection_semaphore, connection_count, rate_limiter,
                                        current_file, event_count>>]_vars

\* C8 (amended): never more than max_connections connections hold a slot; a connection is
\* rejected for want of a slot only when no slot is free, in the same step; a rejected
\* connection leaves the slot pool, the live counter, the log and the event counter
\* unchanged, and of the rate windows it changes at most that of its own source, from
\* which the check removes the expired timestamps and no other.
C8_RejectionOnlyPrunes ==
    [][/\ Cardinality(HoldingSlot') <= cfg.max_connections
       /\ \A c \in Conns :
             Rejected(c) =>
                LET Kept(ts) == now - ts < cfg.rate_limit_window
                IN  /\ UNCHANGED <<connection_semaphore, connection_count, current_file,
                                   event_count>>
                    /\ sock'[c] = "max_connections_rejected" => connection_semaphore = 0
                    /\ \A a \in Addresses \ {address[c]} : rate_limiter'[a] = rate_limiter[a]
                    /\ rate_limiter'[address[c]]
                          \in {rate_limiter[address[c]], SelectSeq(rate_limiter[address[c]], Kept)}]_vars

\* C8 witness: one connection was rejected for want of a slot and one by the rate limit,
\* and a check has removed an expired timestamp.
C8_BothRejections ==
    /\ \E c \in Conns : sock[c] = "max_connections_rejected"
    /\ \E c \in Conns : sock[c] = "rate_limited"
    /\ \E i \in 1..Len(allow_log) : allow_log[i].dropped > 0

\* C9: a check_rate_limit call for a source at time now removes from that source's window
\* every timestamp ts with now - ts >= window_seconds and keeps all others, leaves the
\* windows of other sources unchanged, and returns false if and only if the number of
\* remaining timestamps is >= max_events; the connection is rejected exactly then.
C9_CheckPrunesAndDecides ==
    [][Len(allow_log') = Len(allow_log) + 1 =>
          LET e == allow_log'[Len(allow_log')]
              Expired(ts) == now - ts >= cfg.rate_limit_window
              Remains(ts) == ~Expired(ts)
          IN  /\ e.at = now
              /\ rate_limiter'[e.ip] = SelectSeq(rate_limiter[e.ip], Remains)
              /\ \A a \in Addresses \ {e.ip} : rate_limiter'[a] = rate_limiter[a]
              /\ ~e.ok <=> Len(rate_limiter'[e.ip]) >= cfg.rate_limit_max_events
              /\ ~e.ok <=> \E c \in Conns : address[c] = e.ip /\ sock[c] = "pending"
                                               /\ sock'[c] = "rate_limited"]_vars

\* C9 witness: a check has removed an expired timestamp and returned false.
C9_PrunedAndDenied ==
    \E i \in 1..Len(allow_log) : ~allow_log[i].ok /\ allow_log[i].dropped > 0

\* the check_rate_limit calls for a source, in order
CallsOf(ip) == LET Mine(e) == e.ip = ip IN SelectSeq(allow_log, Mine)

\* the records of the source of check e that were recorded before it and within its window
RecordsInWindow(e) ==
    {i \in 1..e.seen : e.at - recorded[e.ip][i] < cfg.rate_limit_window}

\* C10 (as claimed): of max_events + 1 consecutive checks of a source within one window
\* of which the first max_events returned true, the last returns false; and a check with
\* no record of the source within the window returns true.
C10_DeniedAfterMaxEventsCalls ==
    \A ip \in Addresses :
        LET calls == CallsOf(ip)
            m == cfg.rate_limit_max_events
        IN  /\ \A j \in (m + 1)..Len(calls) :
                  (/\ calls[j].at - calls[j - m].at < cfg.rate_limit_window
                   /\ \A i \in (j - m)..(j - 1) : calls[i].ok) => ~calls[j].ok
            /\ \A j \in 1..Len(calls) : RecordsInWindow(calls[j]) = {} => calls[j].ok

\* C10 (amended): a check returns true if and only if fewer than max_events records of
\* the source (one per appended record, not one per check) were recorded within the
\* window before it; so it returns false once max_events records lie in the window and
\* true again when time has moved past the window with no further record.
C10_DeniedAfterMaxEventsRecords ==
    \A i \in 1..Len(allow_log) :
        allow_log[i].ok <=> Cardinality(RecordsInWindow(allow_log[i])) < cfg.rate_limit_max_events

\* C10 witness: a source was denied with max_events records in its window, and allowed
\* again by a check made a window later.
C10_DeniedThenAllowedAgain ==
    \E i, j \in 1..Len(allow_log) :
        /\ i < j
        /\ allow_log[i].ip = allow_log[j].ip
        /\ ~allow_log[i].ok
        /\ Cardinality(RecordsInWindow(allow_log[i])) = cfg.rate_limit_max_events
        /\ allow_log[j].ok
        /\ allow_log[j].at - allow_log[i].at >= cfg.rate_limit_window

(***************************************************************************)
(* SpecTrusted: two loopback clients and two clients of one other source   *)
(* share one slot, rate limit of one event per window.                     *)
(***************************************************************************)
InitTrusted ==
    InitState([DefaultConfig EXCEPT !.max_connections = 1, !.rate_limit_max_events = 1],
              <<"127.0.0.1", "127.0.0.1", "10.0.0.1", "10.0.0.1">>,
              <<Event("a"), <<>>, Event("b"), <<"x">>>>,
              <<16, 0, 16, 1>>,
              {"ok"})

SpecTrusted == InitTrusted /\ [][NextAdmission]_vars

\* the loopback address
Loopback == "127.0.0.1"

\* the accept loop decides on connection c in this step
Accepting(c) == sock[c] = "pending" /\ sock'[c] # "pending"

\* the records of source a that lie in the window trailing now
RecordsInTrailingWindow(a) ==
    {i \in 1..Len(recorded[a]) : now - recorded[a][i] < cfg.rate_limit_window}

\* C11: with rate limiting enabled, a connection from a trusted (loopback) address is
\* never rejected by rate limiting and the limiter is not consulted for it, however many
\* records of that address lie in the trailing window; a connection from a non-trusted
\* source with max_events or more records in the trailing window is closed at accept
\* with no slot requested, and none of its bytes is ever read.
C11_TrustedBypassUntrustedClosedAtAccept ==
    [][\A c \in Conns :
          /\ (Accepting(c) /\ address[c] = Loopback)
                => sock'[c] # "rate_limited" /\ UNCHANGED rateVars
          /\ (/\ Accepting(c) /\ cfg.rate_limit_enabled /\ address[c] # Loopback
              /\ Cardinality(RecordsInTrailingWindow(address[c])) >= cfg.rate_limit_max_events)
                => /\ sock'[c] = "rate_limited"
                   /\ UNCHANGED <<connection_semaphore, connection_count, wire, received>>
          /\ sock[c] = "rate_limited"
                => sock'[c] = "rate_limited" /\ hpc'[c] = "none" /\ received'[c] = <<>>
                      /\ wire'[c] = wire[c]]_vars

\* C11 witness: a loopback connection holds the only slot although max_events records of
\* the loopback address lie in the trailing window (appended by the connection that held
\* the slot before it), and a connection of the other source was closed by the rate limit
\* with its bytes unread.
C11_LoopbackAdmittedOverLimit ==
    /\ \E c \in Conns :
          /\ address[c] = Loopback /\ sock[c] = "admitted"
          /\ Cardinality(RecordsInTrailingWindow(address[c])) >= cfg.rate_limit_max_events
    /\ \E c \in Conns :
          address[c] # Loopback /\ sock[c] = "rate_limited" /\ wire[c] # <<>>

(***************************************************************************)
(* SpecUpload: one connection appends a record and the rotation thread     *)
(* uploads it through upload_file, for several retry configurations and    *)
(* every kind of answer of the store.                                      *)
(***************************************************************************)
\* the values of MAX_RETRIES
RetryBudgets == {0, 1, 4}

\* the values of RETRY_BASE_DELAY
BaseDelays == {1, 3}

\* the store answers ok, a fatal code, a throttling code, an unknown ClientError code, or
\* the call raises an exception that is not a ClientError
StoreAnswers == {"ok", "AccessDenied", "SlowDown", "InternalError", "Exception"}

InitUpload ==
    \E retries \in RetryBudgets, delay \in BaseDelays :
        InitState([DefaultConfig EXCEPT !.rate_limit_enabled = FALSE, !.max_connections = 1,
                                        !.max_file_size = 17, !.rotation_interval = 60,
                                        !.max_retries = retries, !.retry_base_delay = delay],
                  <<"10.0.0.1">>, <<Event("a")>>, <<16>>, StoreAnswers)

NextUpload == NextAdmit \/ NextIngest \/ NextRotator \/ RotUploadMissing \/ Tick

SpecUpload == InitUpload /\ [][NextUpload]_vars

\* the answer is an error after which upload_file may try again
Retryable(o) == o # "ok" /\ o \notin {"AccessDenied", "InvalidAccessKeyId", "SignatureDoesNotMatch"}

Fatal(o) == o \in {"AccessDenied", "InvalidAccessKeyId", "SignatureDoesNotMatch"}

RECURSIVE Power2(_)
Power2(n) == IF n = 0 THEN 1 ELSE 2 * Power2(n - 1)

\* base*1, base*2, base*4, ...: the delays after failed attempts 1..n
Delays(n) == [k \in 1..n |-> cfg.retry_base_delay * Power2(k - 1)]

\* the calls of upload_file that have returned
Calls == {upload_calls[i] : i \in 1..Len(upload_calls)}

\* the call found its file
Tried(call) == call.last # "no_file"

\* C12: a call of upload_file (on a file that exists) all of whose attempts fail with a
\* retryable error - a throttling code, an unknown ClientError code or an exception that
\* is not a ClientError - makes exactly max_retries attempts, sleeps base_delay * 2^(k-1)
\* after failed attempt k for each k < max_retries, does not sleep after attempt
\* max_retries, and returns failure; while the call is running it has slept exactly
\* after each failed attempt so far.
C12_RetriesExhaustedWithBackoff ==
    /\ \A call \in Calls :
          (Tried(call) /\ \A k \in 1..Len(call.answers) : Retryable(call.answers[k]))
             => /\ ~call.ok
                /\ Len(call.answers) = cfg.max_retries
                /\ call.attempts = cfg.max_retries
                /\ call.slept = Delays(cfg.max_retries - 1)
    /\ rpc = "upload" =>
          /\ attempt = Len(answered) + 1
          /\ attempt <= cfg.max_retries \/ cfg.max_retries < 1
          /\ slept = Delays(Len(answered))

\* C12 witness: a call with max_retries = 4 failed four times, by throttling, by an
\* unknown code and by an exception, slept base, 2*base and 4*base and returned failure.
C12_FourAttemptsThreeSleeps ==
    \E call \in Calls :
        /\ ~call.ok
        /\ call.answers = <<"SlowDown", "InternalError", "Exception", "SlowDown">>
        /\ call.slept = <<cfg.retry_base_delay, 2 * cfg.retry_base_delay, 4 * cfg.retry_base_delay>>
        /\ cfg.retry_base_delay = 3

\* C13: a fatal answer (AccessDenied, InvalidAccessKeyId, SignatureDoesNotMatch) to
\* attempt k ends the call: k is its last attempt, the call returns failure, and it has
\* slept only after the k - 1 attempts before; a call that is still running has had no
\* fatal answer.
C13_FatalErrorEndsCall ==
    /\ \A call \in Calls :
          \A k \in 1..Len(call.answers) :
              Fatal(call.answers[k])
                 => /\ k = Len(call.answers)
                    /\ call.attempts = k
                    /\ ~call.ok
                    /\ call.slept = Delays(k - 1)
    /\ \A k \in 1..Len(answered) : ~Fatal(answered[k])

\* C13 witness: one call failed on a fatal answer to its first attempt without a retry or
\* a sleep, and one on a fatal answer to a later attempt.
C13_FatalFirstAndLater ==
    /\ \E call \in Calls : call.answers = <<"AccessDenied">> /\ call.slept = <<>> /\ ~call.ok
    /\ \E call \in Calls : Len(call.answers) > 1 /\ call.last = "AccessDenied" /\ ~call.ok

\* C14 (as claimed): a call returns failure only after a fatal answer or after
\* max_retries failed attempts; it returns success exactly when some attempt
\* k <= max_retries succeeded with no fatal answer before it, having made k attempts.
C14_FailureOnlyFatalOrExhausted ==
    \A call \in Calls :
        /\ ~call.ok => \/ Fatal(call.last)
                       \/ call.attempts = cfg.max_retries
        /\ call.ok <=> /\ call.last = "ok"
                       /\ call.attempts = Len(call.answers)
                       /\ call.attempts <= cfg.max_retries
                       /\ \A k \in 1..(Len(call.answers) - 1) : Retryable(call.answers[k])

\* C14 (amended): a call returns failure only when its file does not exist (then without
\* an attempt), after a fatal answer, or after max_retries failed attempts; it returns
\* success exactly when some attempt k <= max_retries succeeded with only retryable
\* failures before it, having made k attempts and slept after each of the k - 1 failures.
C14_FailureOnlyMissingFatalOrExhausted ==
    \A call \in Calls :
        /\ ~call.ok => \/ ~Tried(call) /\ call.attempts = 0
                       \/ Fatal(call.last)
                       \/ call.attempts = cfg.max_retries
        /\ call.ok <=> /\ call.last = "ok"
                       /\ call.attempts = Len(call.answers)
                       /\ call.attempts <= cfg.max_retries
                       /\ \A k \in 1..(Len(call.answers) - 1) : Retryable(call.answers[k])
        /\ call.ok => call.slept = Delays(call.attempts - 1)
        /\ \A k \in 1..(Len(call.answers) - 1) : call.answers[k] # "ok"

\* C14 witness: a call succeeded on its last allowed attempt, and a call on a file that
\* had been removed failed without an attempt.
C14_SuccessOnLastAttemptAndMissingFile ==
    /\ \E call \in Calls : call.ok /\ call.attempts = cfg.max_retries /\ call.attempts > 1
    /\ \E call \in Calls : ~call.ok /\ ~Tried(call) /\ cfg.max_retries > 0

(***************************************************************************)
(* SpecFallback: one connection sends records of which some make the       *)
(* wrapped log ill-formed; XML or JSON output.                             *)
(***************************************************************************)
\* a record without its opening tag
Orphan(x) == <<x>> \o Marker

FallbackStreams == {Event("a"), Orphan("a"), Event("a") \o Orphan("b")}

InitFallback ==
    \E stream \in FallbackStreams, format \in {"xml", "json"} :
        InitState([DefaultConfig EXCEPT !.rate_limit_enabled = FALSE, !.max_connections = 1,
                                        !.max_file_size = 10, !.rotation_interval = 60,
                                        !.max_retries = 2, !.output_format = format],
                  <<"10.0.0.1">>, <<stream>>, <<0>>, {"ok", "AccessDenied", "SlowDown"})

SpecFallback == InitFallback /\ [][NextAdmit \/ NextIngest \/ NextRotator \/ Tick]_vars

\* the rotation under way read a log whose wrapped form is not well-formed
IllFormedBatch == rot.outcome \notin {"none", "skipped"} /\ ~ParsesAsXml(Wrap(rot.content))

\* the last call of upload_file
LastCall == upload_calls[Len(upload_calls)]

\* C15: when the wrapped content of the log is not well-formed, the rotation hands to
\* its upload call the unwrapped content it read, as XML even if JSON output is
\* configured, under the key timestamp + "_raw" + ".xml"; the log is emptied only after
\* that call returned success, and after a failure it still holds what the rotation read.
C15_IllFormedLogUploadedRaw ==
    [][IllFormedBatch =>
          /\ rpc = "upload" =>
                /\ UploadBody = XmlBody(rot.content)
                /\ rot.s3_key = [stamp |-> rot.timestamp, suffix |-> "_raw", ext |-> ".xml"]
          /\ rot.outcome \in {"uploaded", "failed", "rotated"} =>
                /\ LastCall.body = XmlBody(rot.content)
                /\ LastCall.key = [stamp |-> rot.timestamp, suffix |-> "_raw", ext |-> ".xml"]
                /\ LastCall.ok <=> rot.outcome # "failed"
          /\ (current_file # <<>> /\ current_file' = <<>>)
                => rot.outcome = "uploaded" /\ LastCall.ok
          /\ rot.outcome = "failed" =>
                /\ Len(current_file) >= Len(rot.content)
                /\ SubSeq(current_file, 1, Len(rot.content)) = rot.content]_vars

\* C15 witness: with JSON output configured, a log whose wrapped form is not well-formed
\* was uploaded raw under the fallback key, the call succeeded and the log was emptied.
C15_RawFallbackUploadedAndReset ==
    /\ cfg.output_format = "json"
    /\ IllFormedBatch
    /\ rot.outcome = "rotated"
    /\ LastCall.key.suffix = "_raw" /\ LastCall.body.format = "xml" /\ LastCall.ok
    /\ current_file = <<>>

(***************************************************************************)
(* SpecKey: rotations with and without date folders, of a well-formed and  *)
(* of an ill-formed log.                                                   *)
(***************************************************************************)
InitKey ==
    \E stream \in {Event("a"), Orphan("a")}, folders \in BOOLEAN, format \in {"xml", "json"} :
        InitState([DefaultConfig EXCEPT !.rate_limit_enabled = FALSE, !.max_connections = 1,
                                        !.max_file_size = 10, !.rotation_interval = 60,
                                        !.max_retries = 2, !.use_date_folders = folders,
                                        !.output_format = format],
                  <<"10.0.0.1">>, <<stream>>, <<0>>, {"ok", "SlowDown"})

SpecKey == InitKey /\ [][NextAdmit \/ NextIngest \/ NextRotator \/ Tick]_vars

\* YYYY/MM/DD/ of the capture timestamp t
DateFolders(t) ==
    LET stamp == Strftime(t)
    IN  SubSeq(stamp, 1, 4) \o <<"/">> \o SubSeq(stamp, 5, 6) \o <<"/">> \o SubSeq(stamp, 7, 8)
            \o <<"/">>

\* prefix + timestamp + extension, with YYYY/MM/DD/ after the prefix under date partitioning
ExpectedKey(key) ==
    cfg.prefix \o (IF cfg.use_date_folders THEN DateFolders(key.stamp) ELSE <<>>) \o KeyOf(key)

\* C16 (as claimed): the key a rotation passes to the store is prefix + timestamp +
\* extension, with YYYY/MM/DD/ of the capture timestamp after the prefix when date
\* partitioning is enabled, and get_s3_key returns this key for the file name
\* timestamp + extension.
C16_StoreKeyHasPrefixAndDateFolders ==
    /\ \A call \in Calls : call.attempts >= 1 => call.store_key = ExpectedKey(call.key)
    /\ \A ext \in {".xml", ".json"} :
          get_s3_key(Strftime(now) \o Bytes(ext))
             = ExpectedKey([stamp |-> now, suffix |-> "", ext |-> ext])

\* the part of C16 that holds: get_s3_key, which no rotation calls, returns the key as
\* specified
GetS3KeyAsSpecified ==
    \A ext \in {".xml", ".json"} :
        get_s3_key(Strftime(now) \o Bytes(ext))
           = ExpectedKey([stamp |-> now, suffix |-> "", ext |-> ext])

(***************************************************************************)
(* SpecPoll: one connection appends three records while the rotation thread *)
(* polls at start and a check interval later; the size limit is two        *)
(* records, the rotation interval one or two check intervals.              *)
(***************************************************************************)
InitPoll ==
    \E interval \in {60, 120} :
        InitState([DefaultConfig EXCEPT !.rate_limit_enabled = FALSE, !.max_connections = 1,
                                        !.max_file_size = 34, !.rotation_interval = interval,
                                        !.max_retries = 1],
                  <<"10.0.0.1">>, <<Event("a") \o Event("b") \o Event("c")>>, <<16>>,
                  {"ok", "AccessDenied"})

NextPoll == NextAdmit \/ NextIngest \/ NextRotator \/ RotInternalError \/ Tick

SpecPoll == InitPoll /\ [][NextPoll]_vars

\* the rotation loop makes its check in this step
Polling == rpc = "poll" /\ fm_running /\ rpc' # "poll"

\* rotate_file is called in this step
RotationStarts == rpc # "acquire" /\ rpc' = "acquire"

TimeTrigger == now - last_rotation_time >= cfg.rotation_interval

SizeTrigger == Len(current_file) >= cfg.max_file_size

\* C17: at each poll of the rotation loop, the first included, rotate_file is called if
\* and only if now - last_rotation_time >= rotation_interval or the log size is
\* >= max_file_size; rotate_file is called only by a poll, and the rotation a poll starts
\* is followed by the sleep of check_interval and the next poll before another can start.
C17_RotationIffTriggeredAtPoll ==
    [][/\ Polling => (rpc' = "acquire" <=> (TimeTrigger \/ SizeTrigger))
       /\ Polling => (rpc' # "acquire" => rpc' = "sleep" /\ wake' = now + cfg.check_interval)
       /\ RotationStarts => Polling
       /\ rpc = "acquire" => rpc' \in {"acquire", "upload", "returned"}
       /\ rpc = "upload" => rpc' \in {"upload", "truncate", "returned"}
       /\ rpc = "truncate" => rpc' \in {"truncate", "reset"}
       /\ rpc = "reset" => rpc' \in {"reset", "returned"}
       /\ rpc = "returned" => rpc' \in {"returned", "sleep"}
       /\ rpc = "sleep" => rpc' \in {"sleep", "poll"}
       /\ (rpc = "sleep" /\ rpc' = "poll") => now >= wake]_vars

\* C17 witness: a rotation was started at the first poll by the size trigger alone (no
\* time had passed) and uploaded, and the poll a check interval later has started one by
\* the time trigger alone, the log being shorter than max_file_size.
C17_SizeThenTimeTrigger ==
    /\ rpc = "acquire"
    /\ current_time - last_rotation_time >= cfg.rotation_interval
    /\ Len(current_file) > 0 /\ Len(current_file) < cfg.max_file_size
    /\ \E call \in Calls : call.key.stamp = 0 /\ call.ok

\* rotate_file returns in this step
RotationEnds == rpc # "returned" /\ rpc' = "returned"

\* C18: every triggered rotation, whether it uploaded, failed to upload, raised an
\* internal error or was skipped for an empty log, returns to the loop, which sets the
\* time-trigger clock to the time of the poll and sleeps check_interval: the rotation is
\* not retried in the same poll, the clock changes at no other step, and a later poll
\* starts a rotation of a log shorter than max_file_size only when rotation_interval has
\* passed since the poll of the last rotation.
C18_ClockResetAfterEveryRotation ==
    [][/\ RotationEnds => rot'.outcome \in {"rotated", "failed", "error", "skipped"}
       /\ rpc = "returned" =>
             \/ rpc' = "returned" /\ last_rotation_time' = last_rotation_time
             \/ /\ rpc' = "sleep"
                /\ last_rotation_time' = current_time
                /\ wake' = now + cfg.check_interval
       /\ rpc # "returned" => last_rotation_time' = last_rotation_time
       /\ (Polling /\ rpc' = "acquire" /\ ~SizeTrigger)
             => now - last_rotation_time >= cfg.rotation_interval]_vars

\* C18 witness: the rotation of the first poll failed to upload and reset the clock; at
\* the poll a check interval later the rotation interval of two check intervals has not
\* passed, and the rotation is tried again because the size trigger holds.
C18_FailedRotationRetriedAtLaterPoll ==
    /\ rpc = "acquire"
    /\ current_time = last_rotation_time + cfg.check_interval
    /\ current_time - last_rotation_time < cfg.rotation_interval
    /\ Len(current_file) >= cfg.max_file_size
    /\ \E call \in Calls : call.key.stamp = last_rotation_time /\ ~call.ok

\* a rotation has uploaded, truncated and reset, and has just returned to the loop
CycleCompleted == rpc = "returned" /\ rot.outcome = "rotated"

\* the appends were complete, counter included, when the rotation took the lock, and no
\* handler has appended since
AppendsCompletedBefore ==
    /\ rot.uncounted = {}
    /\ \A c \in Conns : hpc[c] \notin {"newline", "count"}
    /\ \A i \in 1..Len(appended) : InBucket(appended[i]) = 1

Separators == {<<>>, <<"\n">>, <<" ">>}

\* what the client puts in front of a record
Headers == {<<>>, Declaration}

\* the streams the client sends: two records, and one stream of three
DeclaredStreams ==
    { h1 \o Event("a") \o sep \o h2 \o Event("b") : h1 \in Headers, h2 \in Headers, sep \in Separators }
       \cup { Event("a") \o <<"\n">> \o Declaration \o Event("b") \o <<"\n">> \o Declaration \o Event("c") }

InitDeclared ==
    \E stream \in DeclaredStreams :
        InitState([DefaultConfig EXCEPT !.rate_limit_enabled = FALSE, !.max_connections = 1,
                                        !.max_message_size = 50],
                  <<"10.0.0.1">>, <<stream>>, <<0>>, {"ok"})

SpecDeclared == InitDeclared /\ [][NextAdmit \/ NextIngest]_vars

\* the n-th record the connection c received, as cut at the markers
SegmentReceived(c, n) == Segment(received[c], n)

\* C20 (as claimed): no record body written to the log contains a declaration, and a record
\* sent without a declaration is stored byte for byte (after the separator in front of it).
C20_NoStoredRecordHasDeclaration ==
    \A i \in 1..Len(appended) :
        LET sent == SegmentReceived(appended[i].c, i)
        IN  /\ ~Contains(appended[i].data, XmlDeclPrefix)
            /\ ~Contains(sent, XmlDeclPrefix) => LStrip(appended[i].data) = LStrip(sent)

\* what handle_client does do: a declaration is removed when its record starts with it,
\* that is, when no byte separates it from the marker of the record before
DeclarationStrippedAtFirstByte ==
    \A i \in 1..Len(appended) :
        LET sent == SegmentReceived(appended[i].c, i)
        IN  IF StartsWith(sent, XmlDeclPrefix)
            THEN appended[i].data = LStrip(SliceFrom(sent, Find(sent, XmlDeclEnd) + Len(XmlDeclEnd)))
            ELSE appended[i].data = sent

\* a record that came after a separator was stored with its declaration
DeclarationStored ==
    \E i \in 1..Len(appended) :
        /\ Contains(appended[i].data, XmlDeclPrefix)
        /\ Contains(current_file, XmlDeclPrefix)

(***************************************************************************)
(* SpecSize: two connections, the first sends more than max_message_size.  *)
(***************************************************************************)
InitSize ==
    InitState([DefaultConfig EXCEPT !.rate_limit_enabled = FALSE, !.max_connections = 2,
                                    !.max_message_size = 20],
              <<"10.0.0.1", "10.0.0.2">>,
              <<Event("a") \o Event("b"), Event("c")>>,
              <<0, 16>>,
              {"ok"})

SpecSize == InitSize /\ [][NextAdmit \/ NextIngest]_vars

\* the records the handler of c has appended
AppendedBy(c, records) == LET Mine(r) == r.c = c IN SelectSeq(records, Mine)

\* the step at which the handler of c finds the limit exceeded
CrossesLimit(c) == exit_path[c] # "size_limit" /\ exit_path'[c] = "size_limit"

\* C21: the handler of a connection leaves its loop at the chunk with which the bytes
\* received exceed max_message_size, and only then; that step appends nothing, puts no byte
\* of the chunk into the buffer and touches no other connection; from then on the handler
\* appends nothing, closes the connection and releases its slot, and the log keeps what it
\* held.
C21_SizeLimitClosesOnlyThatConnection ==
    [][\A c \in Conns :
          /\ (total_received'[c] > cfg.max_message_size) = (exit_path'[c] = "size_limit")
          /\ CrossesLimit(c) =>
                /\ total_received[c] <= cfg.max_message_size
                /\ hpc'[c] = "finally"
                /\ message_buffer' = message_buffer
                /\ \A d \in Conns \ {c} : hpc'[d] = hpc[d] /\ sock'[d] = sock[d]
          /\ exit_path'[c] = "size_limit" =>
                /\ current_file' = current_file \/ \E d \in Conns \ {c} : hpc[d] \in {"write", "newline"}
                /\ Len(current_file') >= Len(current_file)
                /\ SubSeq(current_file', 1, Len(current_file)) = current_file
                /\ AppendedBy(c, appended') = AppendedBy(c, appended)
                /\ hpc'[c] \in {"finally", "dec", "exited"}
                /\ hpc'[c] \in {"dec", "exited"} => sock'[c] = "closed"
                /\ connection_semaphore' =
                      cfg.max_connections - Cardinality({d \in Conns : sock'[d] = "admitted"})
      ]_vars

\* C21 witness: the first connection had one record appended, was closed for exceeding the
\* limit and gave its slot back; the second connection had its record appended after that,
\* and the log holds both records and nothing else.
C21_OtherConnectionServedAfterLimit ==
    /\ exit_path[1] = "size_limit" /\ hpc[1] = "exited" /\ sock[1] = "closed"
    /\ total_received[1] > cfg.max_message_size
    /\ [i \in 1..Len(appended) |-> appended[i].c] = <<1, 2>>
    /\ current_file = Event("a") \o <<"\n">> \o Event("c") \o <<"\n">>
    /\ connection_semaphore >= 1

(***************************************************************************)
(* SpecStart: the process from start_server on, with and without a bucket  *)
(* name, the startup check answered in every way.                          *)
(***************************************************************************)
InitStart ==
    \E name \in {<<>>, <<"b">>} :
        /\ InitBuilt([DefaultConfig EXCEPT !.rate_limit_enabled = FALSE, !.max_connections = 1,
                                           !.max_file_size = 17, !.rotation_interval = 60,
                                           !.bucket_name = name],
                     <<"10.0.0.1">>, <<Event("a")>>, <<16>>, {"ok"})
        /\ running = FALSE
        /\ accept_pc = "start_server"
        /\ fm_running = FALSE
        /\ rpc = "unstarted"
        /\ exit_status = -1
        /\ bucket_access = "none"

SpecStart == InitStart /\ [][NextStart \/ NextAdmit \/ NextIngest \/ NextRotator \/ Tick]_vars

\* the listener is bound, or a connection has been accepted
ListenerStarted == running \/ accept_pc \in {"accept", "admit"} \/ \E c \in Conns : sock[c] # "pending"

\* the rotation thread has been started
RotationThreadStarted == rpc # "unstarted" \/ fm_running

\* C22: the listener is bound and the rotation thread is started only when BUCKET_NAME is
\* set and the startup check of the bucket has succeeded; when the name is missing or the
\* check has failed the process has exited with status 1 and neither has started.
C22_FailFastBeforeListenerAndRotation ==
    /\ (ListenerStarted \/ RotationThreadStarted)
          => cfg.bucket_name # <<>> /\ bucket_access = "ok"
    /\ (accept_pc # "start_server" /\ cfg.bucket_name = <<>>)
          => exit_status = 1 /\ bucket_access = "none"
    /\ bucket_access = "failed" => exit_status = 1
    /\ exit_status \in {-1, 1}
    /\ exit_status = 1 => accept_pc = "exited" /\ ~running

\* C22 witness: with the name set and the check passed, the rotation thread was started,
\* the listener bound, and a connection accepted and served.
C22_StartedAfterCheckPassed ==
    /\ bucket_access = "ok" /\ cfg.bucket_name # <<>>
    /\ running /\ rpc \notin {"unstarted", "stopped"}
    /\ Len(appended) = 1

\* the process ended at the check: nothing was started
ExitedAtFailedCheck ==
    /\ bucket_access = "failed" /\ exit_status = 1 /\ rpc = "unstarted"
    /\ \A c \in Conns : sock[c] = "pending"

(***************************************************************************)
(* SpecLive: the threads keep running: time passes without end, every      *)
(* thread that can take a step takes it, and the store stops failing       *)
(* after MaxFailedCalls failed calls.                                      *)
(***************************************************************************)
MaxFailedCalls == 1

\* a clock reading kept relative to now, once now stands at the bound
Rebased(t) == IF t - TickStep < 0 THEN 0 ELSE t - TickStep

\* time passes beyond MaxTime: now stays at the bound and the readings of the clock the
\* rotation loop holds move back by the step instead
TickPastBound ==
    /\ now + TickStep > MaxTime
    /\ now >= cfg.rotation_interval  \* a reading moved back to 0 is still an interval ago
    /\ last_rotation_time' = Rebased(last_rotation_time)
    /\ current_time' = Rebased(current_time)
    /\ wake' = Rebased(wake)
    /\ UNCHANGED <<envVars, leafVars, startVars, now, listenerVars, rateVars, handlerVars, logVars,
                   fm_running, rpc, rot, uploadVars>>

\* the calls of upload_file that returned False
FailedCalls(calls) == Cardinality({i \in 1..Len(calls) : ~calls[i].ok})

\* a step of A that the store's failures allow
LiveStep(A) == A /\ FailedCalls(upload_calls') <= MaxFailedCalls

\* the steps of the handler of c other than taking the file lock
HandlerStep(c) ==
    \/ HandlerLoop(c) \/ HandlerRecvData(c) \/ HandlerRecvClosed(c)
    \/ HandlerWrite(c) \/ HandlerNewline(c) \/ HandlerCount(c)
    \/ HandlerRelease(c) \/ HandlerDecrement(c)

InitLive ==
    InitState([DefaultConfig EXCEPT !.rate_limit_enabled = FALSE, !.max_connections = 1,
                                    !.max_file_size = 34, !.rotation_interval = 60,
                                    !.max_retries = 2],
              <<"10.0.0.1">>,
              <<Event("a") \o Event("b")>>,
              <<16>>,
              {"ok", "SlowDown"})

NextLive == LiveStep(NextAdmit \/ NextIngest \/ NextRotator) \/ Tick \/ TickPastBound

\* the steps of the rotation thread other than taking the file lock
RotatorStep ==
    \/ RotPoll \/ RotSkipEmpty \/ RotUpload \/ RotTruncate \/ RotResetCount
    \/ RotReturned \/ RotWake

\* the rotation thread takes the file lock of a log that is not empty, as RotBegin does
RotTakesLock ==
    /\ rpc = "acquire"
    /\ CanAcquire(file_lock)
    /\ Len(current_file) # 0
    /\ rpc' = "upload"

\* the scheduler runs every thread that can run; a handler waiting for the file lock gets
\* it at one of the times at which it is free; time passes
FairLive ==
    /\ WF_vars(NextAdmit)
    /\ WF_vars(HandlerStep(1)) /\ SF_vars(HandlerLock(1))
    /\ WF_vars(LiveStep(RotatorStep)) /\ WF_rpc(RotTakesLock)
    /\ WF_vars(Tick \/ TickPastBound)

SpecLive == InitLive /\ [][NextLive]_vars /\ FairLive

\* the i-th append has completed
Appended(i) == Len(appended) >= i

\* the i-th appended record is in the payload of a successful upload
Delivered(i) == Appended(i) /\ InBucket(appended[i]) >= 1

\* the records that may be appended in all
MaxRecords == 2

\* C23: every record whose append completed is in the end in the payload of a successful
\* upload, and a record that is in the log stays there until an upload of a payload that
\* holds it has succeeded.
C23_AtLeastOnceDelivery ==
    /\ \A i \in 1..MaxRecords : Appended(i) ~> Delivered(i)
    /\ [][\A i \in 1..Len(appended) :
             (InLog(appended[i]) >= 1 /\ InLog(appended[i])' = 0)
                => /\ rpc = "truncate" /\ LastCall.ok
                   /\ Count(LastCall.body.bytes, Line(appended[i])) >= 1
                   /\ InBucket(appended[i]) >= 1]_vars

\* C23 witness: a rotation failed with the first record in the log, and a later rotation
\* has delivered both records.
C23_DeliveredAfterFailedRotation ==
    /\ Len(appended) = 2
    /\ \A i \in 1..2 : Delivered(i)
    /\ current_file = <<>>
    /\ Len(upload_calls) >= 2 /\ ~upload_calls[1].ok
    /\ Count(upload_calls[1].body.bytes, Line(appended[1])) >= 1

(***************************************************************************)
(* SpecRecords: two connections append while the rotation thread rotates;  *)
(* the first sends two records and the beginning of a third, then closes.  *)
(***************************************************************************)
InitRecords ==
    InitState([DefaultConfig EXCEPT !.rate_limit_enabled = FALSE, !.max_connections = 2,
                                    !.max_file_size = 17, !.rotation_interval = 60,
                                    !.max_retries = 1],
              <<"10.0.0.1", "10.0.0.2">>,
              <<Event("a") \o Event("b") \o <<"<", "E">>, Event("c")>>,
              <<12, 16>>,
              {"ok", "AccessDenied"})

SpecRecords == InitRecords /\ [][NextAdmit \/ NextIngest \/ NextRotator \/ Tick]_vars

\* the records appended after the first k, as they stand in the file
LinesAfter(k) == Lines([i \in 1..(Len(appended) - k) |-> appended[k + i].data])

\* the log is what is left of the appended records, in order, after a truncation
LogIsRecordsInAppendOrder == \E k \in 0..Len(appended) : current_file = LinesAfter(k)

\* the record ends with the marker and holds no other marker
CompleteRecord(d) ==
    /\ Len(d) >= Len(Marker)
    /\ SliceFrom(d, Len(d) - Len(Marker)) = Marker
    /\ Count(d, Marker) = 1

\* the data of the records the handler of c has appended, in order
DataAppendedBy(c) ==
    [i \in 1..Len(AppendedBy(c, appended)) |-> AppendedBy(c, appended)[i].data]

\* C24: whenever the file lock is free the log is a sequence of whole records, each
\* followed by one newline and standing unbroken; every record written ends with its
\* marker, was cut from what its connection sent, and no byte that follows the last marker a
\* connection sent is written, also after the connection has closed.
C24_LogHoldsOnlyCompleteRecords ==
    /\ file_lock = Free => LogIsRecordsInAppendOrder
    /\ \A i \in 1..Len(appended) : CompleteRecord(appended[i].data)
    /\ \A c \in Conns :
          /\ Len(DataAppendedBy(c)) <= Count(received[c], Marker)
          /\ \A n \in 1..Len(DataAppendedBy(c)) :
                DataAppendedBy(c)[n] = StripDeclaration(Segment(received[c], n))

\* C24 witness: the first connection closed with the beginning of a third record in its
\* buffer; the record of the second connection was written between its two records; the
\* log holds the three records whole.
C24_ClosedWithPartialRecordInBuffer ==
    /\ hpc[1] = "exited" /\ exit_path[1] = "disconnect"
    /\ message_buffer[1] = <<"<", "E">>
    /\ file_lock = Free
    /\ current_file = Event("a") \o <<"\n">> \o Event("c") \o <<"\n">> \o Event("b") \o <<"\n">>

\* C25: the records of one connection are appended in the order the framer cut them from
\* its stream, and the records are appended, and stand in the log, in the order in which
\* the handlers took the file lock.
C25_OrderWithinConnectionAndByLock ==
    /\ \A c \in Conns :
          /\ Len(DataAppendedBy(c)) <= Len(RecordsOf(received[c]))
          /\ DataAppendedBy(c) = SubSeq(RecordsOf(received[c]), 1, Len(DataAppendedBy(c)))
    /\ Len(lock_order) \in {Len(appended), Len(appended) + 1}
    /\ \A i \in 1..Len(appended) : appended[i].c = lock_order[i]
    /\ Len(lock_order) = Len(appended) + 1
          => file_lock = HeldByHandler(lock_order[Len(lock_order)])
    /\ file_lock = Free => \E k \in 0..Len(appended) : current_file = LinesAfter(k)

\* C25 witness: the second connection took the lock first, then the first connection
\* twice; the log holds the three records in that order.
C25_SecondConnectionFirst ==
    /\ lock_order = <<2, 1, 1>>
    /\ current_file = Event("c") \o <<"\n">> \o Event("a") \o <<"\n">> \o Event("b") \o <<"\n">>

(***************************************************************************)
(* SpecConvert: one connection sends records made of fields; the rotation  *)
(* converts the batch when JSON output is configured.                      *)
(***************************************************************************)
\* the children of a record the client sends: the tag, how the element is written, its
\* text as sent and the text trimmed of its leading and trailing whitespace
FieldShapes ==
    { [tag |-> <<"f">>, form |-> "text", body |-> <<"x">>, trimmed |-> <<"x">>],
      [tag |-> <<"f">>, form |-> "text", body |-> <<" ", "y", "\n">>, trimmed |-> <<"y">>],
      [tag |-> <<"g">>, form |-> "text", body |-> <<>>, trimmed |-> <<>>],
      [tag |-> <<"g">>, form |-> "empty", body |-> <<>>, trimmed |-> <<>>] }

\* the records the client sends: no, one or two children
RecordShapes ==
    {<<>>} \cup {<<f>> : f \in FieldShapes} \cup {<<f, g>> : f \in FieldShapes, g \in FieldShapes}

\* the records sent in pairs
PairedShapes ==
    { <<>>,
      <<[tag |-> <<"f">>, form |-> "text", body |-> <<"x">>, trimmed |-> <<"x">>]>>,
      <<[tag |-> <<"f">>, form |-> "text", body |-> <<" ", "y", "\n">>, trimmed |-> <<"y">>],
        [tag |-> <<"g">>, form |-> "empty", body |-> <<>>, trimmed |-> <<>>]>> }

\* the batches the client sends: one record, or two
Batches == {<<r>> : r \in RecordShapes} \cup {<<r, q>> : r \in PairedShapes, q \in PairedShapes}

\* <tag>body</tag>, or <tag/>
RenderField(f) ==
    IF f.form = "empty"
    THEN <<"<">> \o f.tag \o <<"/", ">">>
    ELSE <<"<">> \o f.tag \o <<">">> \o f.body \o <<"<", "/">> \o f.tag \o <<">">>

RECURSIVE RenderFields(_)
RenderFields(fs) == IF fs = <<>> THEN <<>> ELSE RenderField(Head(fs)) \o RenderFields(Tail(fs))

\* <EVENT>children</EVENT>
RenderRecord(fs) == <<"<", "E", "V", "E", "N", "T", ">">> \o RenderFields(fs) \o Marker

RECURSIVE RenderStream(_)
\* the records of a batch as the client sends them
RenderStream(b) == IF b = <<>> THEN <<>> ELSE RenderRecord(Head(b)) \o RenderStream(Tail(b))

RECURSIVE RenderLog(_)
\* the records of a batch as they stand in the log
RenderLog(b) ==
    IF b = <<>> THEN <<>> ELSE RenderRecord(Head(b)) \o <<"\n">> \o RenderLog(Tail(b))

InitConvert ==
    \E format \in {"xml", "json"} :
        \E stream \in {RenderStream(b) : b \in Batches} \cup {Orphan("a")} :
            InitState([DefaultConfig EXCEPT !.rate_limit_enabled = FALSE, !.max_connections = 1,
                                            !.max_file_size = 1, !.rotation_interval = 60,
                                            !.max_retries = 1, !.output_format = format],
                      <<"10.0.0.1">>, <<stream>>, <<4096>>, {"ok", "AccessDenied"})

SpecConvert == InitConvert /\ [][NextAdmit \/ NextIngest \/ NextRotator \/ Tick]_vars

\* a rotation has read its batch
BatchRead == rot.outcome \notin {"none", "skipped"}

\* the entry d maps the name of every child of the record to the trimmed text of the
\* (last) child of that name, and maps nothing else
EntryOf(d, fs) ==
    LET names == {fs[j].tag : j \in 1..Len(fs)}
        LastOf(tag) == CHOOSE j \in 1..Len(fs) :
                          fs[j].tag = tag /\ \A k \in (j + 1)..Len(fs) : fs[k].tag # tag
    IN  /\ {d[i].tag : i \in 1..Len(d)} = names
        /\ Len(d) = Cardinality(names)
        /\ \A i \in 1..Len(d) : d[i].text = fs[LastOf(d[i].tag)].trimmed

\* C26: convert_to_json on the wrapped form of a batch of well-formed records gives one
\* entry per record, in the order of the records, each mapping the name of every child to
\* its trimmed text and a child without text to the empty string; on a batch that does not
\* parse it gives None.
C26_ConvertMapsEveryRecord ==
    BatchRead =>
        LET result == convert_to_json(Wrap(rot.content))
        IN  /\ \A b \in Batches :
                  rot.content = RenderLog(b) =>
                      /\ result.ok
                      /\ Len(result.events) = Len(b)
                      /\ \A i \in 1..Len(b) : EntryOf(result.events[i], b[i])
            /\ (\E b \in Batches : rot.content = RenderLog(b)) \/ rot.content = Orphan("a") \o <<"\n">>
            /\ rot.content = Orphan("a") \o <<"\n">> => ~result.ok

\* C26 witness: a batch of two records, the second with a padded text and an empty
\* element, was converted to two entries.
C26_TwoRecordsConverted ==
    /\ BatchRead /\ rot.processed.format = "json"
    /\ Len(rot.processed.events) = 2
    /\ rot.processed.events[2] = <<[tag |-> <<"f">>, text |-> <<"y">>], [tag |-> <<"g">>, text |-> <<>>]>>
    /\ Contains(rot.content, <<">", " ", "y", "\n", "<">>)

\* C27: in a rotation the converter is invoked exactly when JSON output is configured and
\* the wrapped batch is well formed; every call of upload_file whose key ends in .json
\* carries the converted payload of a conversion that succeeded, and when the converter
\* was invoked and failed the wrapped XML form is uploaded under a key ending in .xml.
C27_ConvertedOnlyWhenJsonAndWellFormed ==
    /\ BatchRead =>
          rot.converter_called = (cfg.output_format = "json" /\ ParsesAsXml(Wrap(rot.content)))
    /\ (BatchRead /\ Len(upload_calls) > rot.calls_before) =>
          /\ LastCall.key.ext = ".json" =>
                /\ rot.converter_called
                /\ convert_to_json(Wrap(rot.content)).ok
                /\ LastCall.body = JsonBody(convert_to_json(Wrap(rot.content)).events)
          /\ LastCall.key.ext = ".xml" /\ rot.converter_called =>
                /\ LastCall.body = XmlBody(Wrap(rot.content))
                /\ LastCall.key.suffix = ""
          /\ LastCall.key.ext \in {".json", ".xml"}

\* C27 witness: JSON output is configured and the batch well formed, the conversion failed
\* and the wrapped XML form was uploaded under the .xml key.
C27_ConversionFailedXmlUploaded ==
    /\ cfg.output_format = "json" /\ BatchRead /\ rot.converter_called
    /\ Len(upload_calls) > rot.calls_before
    /\ LastCall.ok /\ LastCall.key.ext = ".xml" /\ LastCall.body = XmlBody(Wrap(rot.content))

(***************************************************************************)
(* Rotation of an empty log (SpecPoll).                                    *)
(***************************************************************************)
\* rotate_file returns at "Skipping rotation for empty file"
SkipsEmpty == rpc = "acquire" /\ rpc' = "returned" /\ rot'.outcome = "skipped"

\* the loop goes on after a rotation that skipped
ResumesAfterSkip == rpc = "returned" /\ rot.outcome = "skipped" /\ rpc' # "returned"

\* C28: a rotation that finds the log empty when it holds the lock does nothing: it makes
\* no upload call and no conversion, leaves the log and the event counter as they are and
\* the lock free; the loop then resets its rotation clock as after any rotation. A rotation
\* that finds the log empty can do nothing else.
C28_RotationOfEmptyLogIsNoOp ==
    [][/\ SkipsEmpty =>
             /\ current_file = <<>> /\ current_file' = <<>>
             /\ event_count' = event_count
             /\ upload_calls' = upload_calls /\ bucket' = bucket
             /\ ~rot'.converter_called /\ rot'.processed = InitRot.processed
             /\ file_lock' = Free
       /\ (rpc = "acquire" /\ rpc' # "acquire" /\ current_file = <<>>) => SkipsEmpty
       /\ ResumesAfterSkip =>
             /\ last_rotation_time' = current_time
             /\ rpc' = "sleep"
             /\ UNCHANGED <<current_file, event_count, upload_calls, bucket, file_lock>>
      ]_vars

\* C28 witness: after a first rotation that uploaded the log, the time trigger started a
\* rotation of the empty log, which skipped; the loop is about to reset its clock.
C28_TimeTriggerOnEmptyLog ==
    /\ rpc = "returned" /\ rot.outcome = "skipped"
    /\ Len(upload_calls) = 1 /\ upload_calls[1].ok
    /\ current_file = <<>>
    /\ current_time - last_rotation_time >= cfg.rotation_interval
    /\ file_lock = Free

(***************************************************************************)
(* Timestamps of the rate limiter (SpecAdmit).                             *)
(***************************************************************************)
\* the records appended from the source a
AppendedFrom(a, records) ==
    Cardinality({i \in 1..Len(records) : address[records[i].c] = a})

\* the handlers of the source a that have appended a record and not yet recorded it
NotYetRecorded(a) == {c \in Conns : address[c] = a /\ hpc[c] \in {"count", "rate"}}

\* check_rate_limit is called
AllowCalled == allow_log' # allow_log

\* the handler of c records a timestamp
Records(c) == hpc[c] = "rate" /\ hpc'[c] # "rate"

\* C29 (as claimed): at every call of check_rate_limit the timestamps added to the window of
\* a source since the start, and so since the call before, are as many as the records
\* appended from that source.
C29_TimestampsEqualAppendsAtAllow ==
    [][(cfg.rate_limit_enabled /\ AllowCalled) =>
          \A a \in Addresses : Len(recorded[a]) = AppendedFrom(a, appended)]_vars

\* C29 (amended): every record appended adds one timestamp, the time of the update, to the
\* window of its source, after the append and the count and before the handler does
\* anything else; nothing else adds to a window, check_rate_limit only removes. At any
\* time the timestamps added for a source are as many as the records appended from it less
\* the records whose handler stands between its append and its update.
C29_OneTimestampPerRecordAfterAppend ==
    /\ [](cfg.rate_limit_enabled => \A a \in Addresses :
             Len(recorded[a]) = AppendedFrom(a, appended) - Cardinality(NotYetRecorded(a)))
    /\ [][/\ \A c \in Conns :
                Records(c) =>
                   /\ rate_limiter'[address[c]] = Append(rate_limiter[address[c]], now)
                   /\ appended' = appended
                   /\ \A a \in Addresses \ {address[c]} : rate_limiter'[a] = rate_limiter[a]
          /\ (\A c \in Conns : ~Records(c)) =>
                \A a \in Addresses :
                   \/ rate_limiter'[a] = rate_limiter[a]
                   \/ AllowCalled /\ Len(rate_limiter'[a]) < Len(rate_limiter[a])
          /\ \A c \in Conns :
                (hpc[c] = "count" /\ hpc'[c] # "count") => hpc'[c] = "rate"
         ]_vars

\* C29 witness: one connection has appended two records; the first has its timestamp, the
\* second not yet, and check_rate_limit was called for the source after the first append.
C29_SecondRecordNotYetRecorded ==
    \E c \in Conns :
        /\ hpc[c] = "rate"
        /\ AppendedFrom(address[c], appended) = 2
        /\ Len(recorded[address[c]]) = 1
        /\ Len(CallsOf(address[c])) >= 2
        /\ \A i \in 1..Len(appended) : appended[i].c = c

(***************************************************************************)
(* Termination of a rotation (SpecLive).                                   *)
(***************************************************************************)
\* the attempts and the backoff sleeps of an upload stay within max_retries
WithinRetries(attempts, sleeps) ==
    attempts <= cfg.max_retries /\ Len(sleeps) <= cfg.max_retries - 1

\* the handler of c waits for the file lock with n records appended
WaitsForLock(c, n) == hpc[c] = "lock" /\ Len(appended) = n

\* the handler of c has appended the record n + 1 and left the file section
AppendCompleted(c, n) ==
    Len(appended) > n /\ appended[n + 1].c = c /\ file_lock # HeldByHandler(c)

\* C30: an upload makes at most max_retries attempts and at most max_retries - 1 backoff
\* sleeps, a rotation that holds the file lock releases it, and a handler that waits for
\* the lock gets it and completes its append (the handler of SpecLive is that of connection 1).
C30_RotationTerminatesAndReleasesLock ==
    /\ [](/\ WithinRetries(attempt, slept)
          /\ \A call \in Calls : WithinRetries(call.attempts, call.slept))
    /\ (file_lock = HeldByRotator) ~> (file_lock = Free /\ rpc = "returned")
    /\ \A n \in 0..(MaxRecords - 1) : WaitsForLock(1, n) ~> AppendCompleted(1, n)

\* C30 witness: a handler waits for the file lock while the rotation that holds it is at
\* its last attempt, after a backoff sleep.
C30_HandlerWaitsDuringRetry ==
    \E c \in Conns :
        /\ hpc[c] = "lock"
        /\ file_lock = HeldByRotator
        /\ rpc = "upload"
        /\ attempt = cfg.max_retries
        /\ Len(slept) = cfg.max_retries - 1

(***************************************************************************)
(* SpecShutdown: two connections and the rotation thread, and a signal     *)
(* that stops the server at any moment.                                    *)
(***************************************************************************)
InitShutdown ==
    InitState([DefaultConfig EXCEPT !.rate_limit_enabled = FALSE, !.max_connections = 2,
                                    !.max_file_size = 17, !.rotation_interval = 60,
                                    !.max_retries = 1],
              <<"10.0.0.1", "10.0.0.2">>,
              <<Event("a") \o Event("b"), Event("c")>>,
              <<16, 16>>,
              {"ok"})

NextShutdown ==
    \/ MainThread(NextAdmit)
    \/ WhileAlive(NextIngest)
    \/ WhileAlive(\E c \in Conns : HandlerRecvTimeout(c))
    \/ WhileAlive(NextRotator)
    \/ WhileAlive(Shutdown)
    \/ SignalExit
    \/ Tick

SpecShutdown == InitShutdown /\ [][NextShutdown]_vars

\* the signal handler has cleared both flags
Signalled == ~running /\ ~fm_running

\* the handler of c runs
InFlight(c) == hpc[c] \notin {"none", "exited"}

\* C31 (as claimed): every handler in flight leaves by itself and gives its slot back: when
\* the process has ended no handler is left in flight.
C31_HandlersExitedWhenProcessEnds ==
    exit_status = 0 => \A c \in Conns : ~InFlight(c)

\* C31 (amended): once the flags are cleared the accept loop admits no connection and makes
\* no step but its exit; the rotation loop starts no rotation at a poll, a rotation under
\* way goes on; clearing the flags changes nothing in a handler, and a handler that comes
\* to its loop test leaves with its slot given back instead of receiving again; the process
\* ends on the signal handler's exit, and the handlers and the rotation still running then
\* end with it where they stand.
C31_ShutdownStopsLoopsNotHandlers ==
    /\ [][(running /\ ~running') => UNCHANGED <<handlerVars, logVars, rpc, rot, sock>>]_vars
    /\ [][Signalled =>
            /\ \A c \in Conns : sock[c] = "pending" => sock'[c] = "pending"
            /\ \A c \in Conns : hpc[c] = "none" => hpc'[c] = "none"
            /\ connection_semaphore' >= connection_semaphore
            /\ connection_count' <= connection_count
            /\ accept_pc' # accept_pc => accept_pc' = "exited" /\ exit_status' = 0
            /\ rpc \in {"poll", "stopped"} => rpc' \in {rpc, "stopped"}
            /\ rpc' = "acquire" => rpc = "acquire"
            /\ \A c \in Conns :
                  /\ hpc[c] = "loop" /\ hpc'[c] # "loop"
                        => hpc'[c] = "finally" /\ exit_path'[c] = "shutdown"
                  /\ hpc'[c] = "recv" => hpc[c] = "recv"
                  /\ hpc[c] = "finally" /\ hpc'[c] # "finally"
                        => connection_semaphore' = connection_semaphore + 1
         ]_vars
    /\ [][exit_status # -1 => UNCHANGED <<listenerVars, handlerVars, logVars, rotatorVars,
                                           uploadVars, rateVars>>]_vars
    /\ [](exit_status = 0 => Signalled /\ accept_pc = "exited")

\* C31 witness: after the signal the first handler received its second record, appended it
\* and left at its loop test with its slot given back; the process has ended with the
\* second handler still waiting for data.
C31_OneHandlerLeftOneEndedWithProcess ==
    /\ exit_status = 0
    /\ hpc[1] = "exited" /\ exit_path[1] = "shutdown" /\ Len(received[1]) = 32
    /\ \E i \in 1..Len(appended) : appended[i].c = 1 /\ appended[i].data = Event("b")
    /\ hpc[2] = "recv" /\ sock[2] = "admitted"

(***************************************************************************)
(* SpecErrors: one connection appends two records while the rotation       *)
(* thread rotates and any step of a rotation or of the loop may raise.     *)
(***************************************************************************)
\* a faulty variant of WithExit: the lock stays with the thread that raised
WithExitKeeps(lock) == lock

\* with self.file_lock: the lock is released however the block is left
WithExit(lock) == Free

\* except Exception: "Error during file rotation", raised by the upload call outside its
\* own handlers, by the truncation, or by the removal of the temp files
RotRaises ==
    /\ rpc \in {"upload", "truncate", "reset"}
    /\ file_lock' = WithExit(file_lock)
    /\ rot' = [rot EXCEPT !.outcome = "error"]
    /\ rpc' = "returned"
    /\ UNCHANGED <<envVars, leafVars, startVars, now, listenerVars, rateVars, handlerVars, current_file,
                   event_count, appended, lock_order, fm_running, last_rotation_time,
                   current_time, wake, uploadVars>>

\* except Exception: "Error in rotation loop", raised in the loop outside rotate_file's
\* own handler; time.sleep(self.check_interval)
RotLoopError ==
    /\ rpc = "poll"
    /\ fm_running
    /\ current_time' = now
    /\ wake' = now + cfg.check_interval
    /\ rpc' = "sleep"
    /\ UNCHANGED <<envVars, leafVars, startVars, now, listenerVars, rateVars, handlerVars, logVars,
                   fm_running, last_rotation_time, rot, uploadVars>>

InitErrors ==
    InitState([DefaultConfig EXCEPT !.rate_limit_enabled = FALSE, !.max_connections = 1,
                                    !.max_file_size = 17, !.rotation_interval = 60,
                                    !.max_retries = 1],
              <<"10.0.0.1">>, <<Event("a") \o Event("b")>>, <<16>>,
              {"ok", "AccessDenied"})

NextErrors ==
    NextAdmit \/ NextIngest \/ NextRotator \/ RotInternalError \/ RotRaises \/ RotLoopError
       \/ Tick

SpecErrors == InitErrors /\ [][NextErrors]_vars

\* rotate_file catches an unexpected error in this step
ErrorCaught == rot.outcome # "error" /\ rot'.outcome = "error"

\* C32: an unexpected error at any step of a rotation leaves the rotation thread and the
\* process running and the file lock free; rotate_file returns to the loop, which resets
\* its clock, sleeps one check interval and polls again; the handlers are untouched and
\* take the lock as before.
C32_RotationErrorIsCaughtAndLoopGoesOn ==
    /\ [][ErrorCaught =>
            /\ file_lock' = Free
            /\ rpc' = "returned"
            /\ fm_running' /\ exit_status' = -1
            /\ UNCHANGED <<handlerVars, listenerVars, current_file, event_count, appended,
                           upload_calls, bucket>>]_vars
    /\ [][(rpc = "returned" /\ rpc' # "returned") =>
            rpc' = "sleep" /\ wake' = now + cfg.check_interval
                           /\ last_rotation_time' = current_time]_vars
    /\ [][(rpc = "sleep" /\ rpc' # "sleep") => rpc' = "poll" /\ now >= wake]_vars
    /\ [][(rpc = "poll" /\ rpc' # "poll") => rpc' \in {"acquire", "sleep"}]_vars
    /\ [](fm_running /\ exit_status = -1 /\ rpc # "stopped")
    /\ [](rpc \in {"poll", "sleep", "acquire", "returned"} => file_lock # HeldByRotator)

\* C32 witness: the first rotation uploaded record a and raised at the truncation, so a
\* stayed in the log; the handler appended b after it; the rotation of the next poll
\* cycle uploaded a and b and emptied the log.
C32_RotatedAgainAfterErrorAtTruncation ==
    /\ Len(appended) = 2
    /\ Len(bucket) = 2
    /\ bucket[1].body.bytes = Wrap(Line(appended[1]))
    /\ bucket[2].body.bytes = Wrap(Line(appended[1]) \o Line(appended[2]))
    /\ current_file = <<>>
    /\ file_lock = Free
    /\ rpc = "sleep"

(***************************************************************************)
(* The live-connection counter (SpecAdmit).                                *)
(***************************************************************************)
\* C33: the live-connection counter stays between 0 and max_connections.
C33_ConnectionCountWithinBounds ==
    0 <= connection_count /\ connection_count <= cfg.max_connections

\* the counter never falls below 0, and passes max_connections only while a handler
\* stands between the release of its slot and its decrement
CountExceedsOnlyBetweenReleaseAndDecrement ==
    /\ 0 <= connection_count
    /\ connection_count <= cfg.max_connections + Cardinality({c \in Conns : hpc[c] = "dec"})

\* a handler has released its slot and not yet decremented, and the accept loop has
\* admitted and counted the next connection
CountAboveMaxConnections ==
    /\ connection_count = cfg.max_connections + 1
    /\ \E c \in Conns : hpc[c] = "dec"
    /\ \E c \in Conns : hpc[c] = "loop"

(***************************************************************************)
(* The rate limiter and admitted connections (SpecAdmit).                  *)
(***************************************************************************)
\* the window of the source of c, as check_rate_limit would prune it now, is full
WindowFull(c) == ~WithinLimit(Prune(rate_limiter[address[c]], now))

\* the handler of c has processed everything it read: it stands between two reads or
\* has left the loop because the client disconnected
ReadAndProcessed(c) == hpc[c] \in {"loop", "recv"} \/ exit_path[c] = "disconnect"

\* the step takes the handler of c out of its receive loop
LeavesLoop(c) == exit_path[c] = "none" /\ exit_path'[c] # "none"

\* C35: check_rate_limit is called only by the accept loop for a pending connection and
\* no handler moves in that step; an admitted connection is never marked rate limited;
\* a handler leaves its loop only because the client disconnected, the read timed out,
\* the size limit was passed, the server stops or the file could not be opened, full
\* window or not; and a handler that has processed what it read has appended one record
\* per end marker it received, so no record is dropped while the window is full.
C35_RateLimitConsultedOnlyAtAccept ==
    /\ [][AllowCalled =>
             /\ accept_pc = "accept"
             /\ \E c \in Conns : /\ sock[c] = "pending" /\ sock'[c] # "pending"
                                 /\ RateChecked(c)
                                 /\ allow_log'[Len(allow_log')].ip = address[c]
             /\ hpc' = hpc /\ exit_path' = exit_path /\ appended' = appended]_vars
    /\ [][\A c \in Conns : sock[c] \in {"admitted", "closed"} => sock'[c] # "rate_limited"]_vars
    /\ [][\A c \in Conns :
             LeavesLoop(c) =>
                 \/ exit_path'[c] = "disconnect" /\ hpc[c] = "recv" /\ wire[c] = <<>>
                 \/ exit_path'[c] = "timeout" /\ hpc[c] = "recv"
                 \/ exit_path'[c] = "size_limit" /\ OverLimit(total_received'[c])
                 \/ exit_path'[c] = "shutdown" /\ ~running
                 \/ exit_path'[c] = "error" /\ hpc[c] = "write"]_vars
    /\ [](\A c \in Conns :
             ReadAndProcessed(c) =>
                 Len(DataAppendedBy(c)) = Count(received[c], Marker))

\* connection 1 sent two records and disconnected with both appended, although the window
\* of its source was full from the first record on and another connection of the same
\* source was turned away by the rate limit meanwhile
C35_BothRecordsAppendedWithFullWindow ==
    /\ exit_path[1] = "disconnect"
    /\ DataAppendedBy(1) = <<Event("a"), Event("b")>>
    /\ Len(rate_limiter[address[1]]) > cfg.rate_limit_max_events
    /\ WindowFull(1)
    /\ \E c \in Conns : address[c] = address[1] /\ sock[c] = "rate_limited"

(***************************************************************************)
(* SpecLocks: the threads with every acquisition and release of the four   *)
(* locks as a step of its own: a step "...Lock" waits for the lock and     *)
(* takes it, the step "...Locked" runs the with block and releases it.     *)
(* The signal handler runs in the main thread, wherever that thread is.    *)
(***************************************************************************)
\* lock.acquire(): the thread who waits until the lock l is free and takes it
Takes(l, who) ==
    /\ CanAcquire(lock_holder[l])
    /\ lock_holder' = [lock_holder EXCEPT ![l] = who]

\* lock.release() at the end of the with block
Releases(l) == lock_holder' = [lock_holder EXCEPT ![l] = Free]

\* client_socket, address = self.server_socket.accept()
AcceptClient(c) ==
    /\ accept_pc = "accept" /\ running
    /\ sock[c] = "pending"
    /\ accepted' = c
    /\ accept_pc' = IF RateChecked(c) THEN "check_rate_limit" ELSE "semaphore"
    /\ UNCHANGED <<envVars, leafVars, startVars, now, sock, running, connection_semaphore,
                   connection_count, rateVars, handlerVars, logVars, rotatorVars, uploadVars>>

\* check_rate_limit: with self.rate_limit_lock
AcceptRateLock ==
    /\ accept_pc = "check_rate_limit"
    /\ Takes("rate_limit_lock", HeldByMain)
    /\ accept_pc' = "check_rate_limit_locked"
    /\ UNCHANGED <<envVars, startVars, now, sock, running, accepted, connection_semaphore,
                   connection_count, rateVars, handlerVars, logVars, rotatorVars, uploadVars>>

\* check_rate_limit under its lock; if it returns False: close the connection, continue
AcceptRateLocked ==
    /\ accept_pc = "check_rate_limit_locked"
    /\ CheckRateLimit(accepted)
    /\ Releases("rate_limit_lock")
    /\ IF WithinLimit(Prune(rate_limiter[address[accepted]], now))
       THEN accept_pc' = "semaphore" /\ UNCHANGED sock
       ELSE accept_pc' = "accept" /\ sock' = [sock EXCEPT ![accepted] = "rate_limited"]
    /\ UNCHANGED <<envVars, startVars, now, running, accepted, connection_semaphore,
                   connection_count, handlerVars, logVars, rotatorVars, uploadVars>>

\* self.connection_semaphore.acquire(blocking=False)
AcceptSemaphore ==
    /\ accept_pc = "semaphore"
    /\ IF connection_semaphore > 0
       THEN /\ connection_semaphore' = SlotsAfterAcquire(connection_semaphore)
            /\ sock' = [sock EXCEPT ![accepted] = "admitted"]
            /\ accept_pc' = "admit"
       ELSE /\ sock' = [sock EXCEPT ![accepted] = "max_connections_rejected"]
            /\ accept_pc' = "accept"
            /\ UNCHANGED connection_semaphore
    /\ UNCHANGED <<envVars, leafVars, startVars, now, running, accepted, connection_count,
                   rateVars, handlerVars, logVars, rotatorVars, uploadVars>>

\* with self.connection_lock
AcceptDispatchLock ==
    /\ accept_pc = "admit"
    /\ Takes("connection_lock", HeldByMain)
    /\ accept_pc' = "admit_locked"
    /\ UNCHANGED <<envVars, startVars, now, sock, running, accepted, connection_semaphore,
                   connection_count, rateVars, handlerVars, logVars, rotatorVars, uploadVars>>

\* self.connection_count += 1 under the lock; client_thread.start()
AcceptDispatchLocked ==
    /\ accept_pc = "admit_locked"
    /\ connection_count' = connection_count + 1
    /\ Releases("connection_lock")
    /\ hpc' = [hpc EXCEPT ![accepted] = "loop"]
    /\ accept_pc' = "accept"
    /\ UNCHANGED <<exit_path, envVars, startVars, now, sock, running, accepted,
                   connection_semaphore, rateVars, wire, received, message_buffer,
                   total_received, event_data, logVars, rotatorVars, uploadVars>>

\* a signal arrives: signal_handler runs in the main thread, which keeps the lock it
\* holds; tcp_server.stop(): self.running = False, the listening socket is closed
SignalStop ==
    /\ running
    /\ accept_pc \in {"accept", "check_rate_limit", "check_rate_limit_locked", "semaphore",
                      "admit", "admit_locked"}
    /\ running' = FALSE
    /\ accept_pc' = "stop"
    /\ UNCHANGED <<envVars, leafVars, startVars, now, sock, accepted, connection_semaphore,
                   connection_count, rateVars, handlerVars, logVars, rotatorVars, uploadVars>>

\* stop: self.get_event_count(): with self.event_count_lock
SignalCountLock ==
    /\ accept_pc = "stop"
    /\ Takes("event_count_lock", HeldByMain)
    /\ accept_pc' = "stop_locked"
    /\ UNCHANGED <<envVars, startVars, now, sock, running, accepted, connection_semaphore,
                   connection_count, rateVars, handlerVars, logVars, rotatorVars, uploadVars>>

\* get_event_count returns; file_manager.stop(): self.running = False, and the join of
\* the rotation thread begins
SignalCountLocked ==
    /\ accept_pc = "stop_locked"
    /\ Releases("event_count_lock")
    /\ fm_running' = FALSE
    /\ accept_pc' = "join"
    /\ UNCHANGED <<envVars, startVars, now, sock, running, accepted, connection_semaphore,
                   connection_count, rateVars, handlerVars, logVars, rpc, last_rotation_time,
                   current_time, wake, rot, uploadVars>>

\* with self.event_count_lock
HandlerCountLock(c) ==
    /\ hpc[c] = "count"
    /\ Takes("event_count_lock", HeldByHandler(c))
    /\ hpc' = [hpc EXCEPT ![c] = "count_locked"]
    /\ UNCHANGED <<exit_path, envVars, startVars, now, listenerVars, rateVars, wire, received,
                   message_buffer, total_received, event_data, logVars, rotatorVars,
                   uploadVars>>

\* self.event_count += 1 under the lock
HandlerCountLocked(c) ==
    /\ hpc[c] = "count_locked"
    /\ event_count' = event_count + 1
    /\ Releases("event_count_lock")
    /\ IF cfg.rate_limit_enabled
       THEN /\ hpc' = [hpc EXCEPT ![c] = "rate"]
            /\ UNCHANGED <<message_buffer, event_data>>
       ELSE Scan(c, message_buffer[c])
    /\ UNCHANGED <<exit_path, envVars, startVars, now, listenerVars, rateVars, wire, received,
                   total_received, current_file, file_lock, lock_order, appended,
                   rotatorVars, uploadVars>>

\* update_rate_limit: with self.rate_limit_lock
HandlerRateLock(c) ==
    /\ hpc[c] = "rate"
    /\ Takes("rate_limit_lock", HeldByHandler(c))
    /\ hpc' = [hpc EXCEPT ![c] = "rate_locked"]
    /\ UNCHANGED <<exit_path, envVars, startVars, now, listenerVars, rateVars, wire, received,
                   message_buffer, total_received, event_data, logVars, rotatorVars,
                   uploadVars>>

\* self.rate_limiter[ip_address].append(time.time()) under the lock
HandlerRateLocked(c) ==
    /\ hpc[c] = "rate_locked"
    /\ rate_limiter' = [rate_limiter EXCEPT ![address[c]] = update_rate_limit(@, now)]
    /\ recorded' = [recorded EXCEPT ![address[c]] = Append(@, now)]
    /\ Releases("rate_limit_lock")
    /\ Scan(c, message_buffer[c])
    /\ UNCHANGED <<exit_path, envVars, startVars, now, listenerVars, allow_log, wire, received,
                   total_received, logVars, rotatorVars, uploadVars>>

\* finally: with self.connection_lock
HandlerDecrementLock(c) ==
    /\ hpc[c] = "dec"
    /\ Takes("connection_lock", HeldByHandler(c))
    /\ hpc' = [hpc EXCEPT ![c] = "dec_locked"]
    /\ UNCHANGED <<exit_path, envVars, startVars, now, listenerVars, rateVars, wire, received,
                   message_buffer, total_received, event_data, logVars, rotatorVars,
                   uploadVars>>

\* self.connection_count -= 1 under the lock
HandlerDecrementLocked(c) ==
    /\ hpc[c] = "dec_locked"
    /\ connection_count' = connection_count - 1
    /\ Releases("connection_lock")
    /\ hpc' = [hpc EXCEPT ![c] = "exited"]
    /\ UNCHANGED <<exit_path, envVars, startVars, now, sock, running, accept_pc, accepted,
                   connection_semaphore, rateVars, wire, received, message_buffer,
                   total_received, event_data, logVars, rotatorVars, uploadVars>>

\* rotate_file: with self.file_lock
RotLockFile ==
    /\ rpc = "acquire"
    /\ CanAcquire(file_lock)
    /\ file_lock' = HeldByRotator
    /\ rpc' = "get_event_count"
    /\ UNCHANGED <<envVars, leafVars, startVars, now, listenerVars, rateVars, handlerVars,
                   current_file, event_count, appended, lock_order, fm_running,
                   last_rotation_time, current_time, wake, rot, uploadVars>>

\* self.tcp_server.get_event_count(): with self.event_count_lock, the file lock held
RotGetCountLock ==
    /\ rpc = "get_event_count"
    /\ Takes("event_count_lock", HeldByRotator)
    /\ rpc' = "get_event_count_locked"
    /\ UNCHANGED <<envVars, startVars, now, listenerVars, rateVars, handlerVars, logVars,
                   fm_running, last_rotation_time, current_time, wake, rot, uploadVars>>

\* return self.event_count under the lock
RotGetCountLocked ==
    /\ rpc = "get_event_count_locked"
    /\ rot' = [rot EXCEPT !.event_count = event_count]
    /\ Releases("event_count_lock")
    /\ rpc' = "locked"
    /\ UNCHANGED <<envVars, startVars, now, listenerVars, rateVars, handlerVars, logVars,
                   fm_running, last_rotation_time, current_time, wake, uploadVars>>

\* "Skipping rotation for empty file": return, the file lock is released
RotLockedSkip ==
    /\ rpc = "locked"
    /\ Len(current_file) = 0
    /\ rot' = [rot EXCEPT !.outcome = "skipped"]
    /\ file_lock' = Free
    /\ rpc' = "returned"
    /\ UNCHANGED <<envVars, leafVars, startVars, now, listenerVars, rateVars, handlerVars,
                   current_file, event_count, appended, lock_order, fm_running,
                   last_rotation_time, current_time, wake, uploadVars>>

\* read, wrap, validate and convert under the file lock, up to the upload call
RotLockedBegin ==
    /\ rpc = "locked"
    /\ Len(current_file) # 0
    /\ RotReadWrapConvert(rot.event_count)
    /\ UNCHANGED <<envVars, leafVars, startVars, now, listenerVars, rateVars, handlerVars,
                   event_count, file_lock, appended, lock_order, fm_running,
                   last_rotation_time, current_time, wake, upload_calls, bucket>>

\* self.tcp_server.get_and_reset_event_count(): with self.event_count_lock, the file
\* lock held
RotResetLock ==
    /\ rpc = "reset"
    /\ Takes("event_count_lock", HeldByRotator)
    /\ rpc' = "reset_locked"
    /\ UNCHANGED <<envVars, startVars, now, listenerVars, rateVars, handlerVars, logVars,
                   fm_running, last_rotation_time, current_time, wake, rot, uploadVars>>

\* self.event_count = 0 under the lock; the with block of the file lock ends
RotResetLocked ==
    /\ rpc = "reset_locked"
    /\ event_count' = CountAfterReset(event_count)
    /\ Releases("event_count_lock")
    /\ rot' = [rot EXCEPT !.outcome = "rotated"]
    /\ file_lock' = Free
    /\ rpc' = "returned"
    /\ UNCHANGED <<envVars, startVars, now, listenerVars, rateVars, handlerVars, current_file,
                   appended, lock_order, fm_running, last_rotation_time, current_time, wake,
                   uploadVars>>

InitLocks ==
    InitState([DefaultConfig EXCEPT !.max_connections = 2, !.max_file_size = 17,
                                    !.rotation_interval = 60, !.max_retries = 1],
              <<"10.0.0.1", "10.0.0.1">>,
              <<Event("a"), <<>>>>,
              <<16, 16>>,
              {"ok"})

\* the accept loop and the signal handler
NextMainLocks ==
    \/ \E c \in Conns : AcceptClient(c)
    \/ AcceptRateLock \/ AcceptRateLocked
    \/ AcceptSemaphore
    \/ AcceptDispatchLock \/ AcceptDispatchLocked
    \/ SignalStop \/ SignalCountLock \/ SignalCountLocked

\* the handler threads
NextHandlerLocks ==
    \E c \in Conns :
        \/ HandlerLoop(c) \/ HandlerRecvData(c) \/ HandlerRecvClosed(c)
        \/ HandlerRecvTimeout(c)
        \/ HandlerLock(c) \/ HandlerWrite(c) \/ HandlerNewline(c)
        \/ HandlerCountLock(c) \/ HandlerCountLocked(c)
        \/ HandlerRateLock(c) \/ HandlerRateLocked(c)
        \/ HandlerRelease(c)
        \/ HandlerDecrementLock(c) \/ HandlerDecrementLocked(c)

\* the rotation thread
NextRotatorLocks ==
    \/ RotPoll
    \/ RotLockFile \/ RotGetCountLock \/ RotGetCountLocked
    \/ RotLockedSkip \/ RotLockedBegin
    \/ RotUpload \/ RotTruncate
    \/ RotResetLock \/ RotResetLocked
    \/ RotReturned \/ RotWake

NextLocks ==
    \/ WhileAlive(NextMainLocks)
    \/ WhileAlive(NextHandlerLocks)
    \/ WhileAlive(NextRotatorLocks)
    \/ SignalExit
    \/ Tick

SpecLocks == InitLocks /\ [][NextLocks]_vars

\* the threads, named as a lock names its holder
Handlers == {HeldByHandler(c) : c \in Conns}
Threads == {HeldByMain, HeldByRotator} \cup Handlers

\* the thread has started and not ended
LiveThread(t) ==
    CASE t = HeldByMain -> exit_status = -1
      [] t = HeldByRotator -> exit_status = -1 /\ rpc # "stopped"
      [] OTHER -> exit_status = -1 /\ hpc[t.c] \notin {"none", "exited"}

\* the lock whose acquisition is the next step of the thread, "none" if it is no
\* acquisition
WaitsFor(t) ==
    CASE t = HeldByMain ->
            (CASE accept_pc = "check_rate_limit" -> "rate_limit_lock"
               [] accept_pc = "admit" -> "connection_lock"
               [] accept_pc = "stop" -> "event_count_lock"
               [] OTHER -> "none")
      [] t = HeldByRotator ->
            (CASE rpc = "acquire" -> "file_lock"
               [] rpc \in {"get_event_count", "reset"} -> "event_count_lock"
               [] OTHER -> "none")
      [] OTHER ->
            (CASE hpc[t.c] = "lock" -> "file_lock"
               [] hpc[t.c] = "count" -> "event_count_lock"
               [] hpc[t.c] = "rate" -> "rate_limit_lock"
               [] hpc[t.c] = "dec" -> "connection_lock"
               [] OTHER -> "none")

HolderOf(l) == IF l = "file_lock" THEN file_lock ELSE lock_holder[l]

\* the locks the thread holds
HeldLocks(t) == {l \in LeafLocks \cup {"file_lock"} : HolderOf(l) = t}

\* the thread waits for a lock that another thread holds
Blocked(t) == WaitsFor(t) # "none" /\ HolderOf(WaitsFor(t)) # Free

\* the locks a thread holds inside the with blocks it stands in
LocksOfPosition(t) ==
    CASE t = HeldByMain ->
            (CASE accept_pc = "check_rate_limit_locked" -> {"rate_limit_lock"}
               [] accept_pc = "admit_locked" -> {"connection_lock"}
               [] accept_pc = "stop_locked" -> {"event_count_lock"}
               [] OTHER -> {})
      [] t = HeldByRotator ->
            (CASE rpc \in {"get_event_count", "locked", "upload", "truncate", "reset"}
                     -> {"file_lock"}
               [] rpc \in {"get_event_count_locked", "reset_locked"}
                     -> {"file_lock", "event_count_lock"}
               [] OTHER -> {})
      [] OTHER ->
            (CASE hpc[t.c] \in {"write", "newline"} -> {"file_lock"}
               [] hpc[t.c] = "count_locked" -> {"event_count_lock"}
               [] hpc[t.c] = "rate_locked" -> {"rate_limit_lock"}
               [] hpc[t.c] = "dec_locked" -> {"connection_lock"}
               [] OTHER -> {})

=============================================================================
